---------------------------- MODULE Spec2Model ----------------------------
(***************************************************************************)
(* RadioModTx: dataset parsers, presenter and ADI transceiver variants.    *)
(*                                                                         *)
(* Units.  TLC integers are 32 bit, so LO frequencies are in kHz (6 GHz is *)
(* 6000000), sampling frequencies and bandwidths are in Hz, hardware gains *)
(* are in 0.01 dB and the NCO gain scale is in 0.01 (the interval [0, 1]   *)
(* is 0..100).                                                             *)
(***************************************************************************)
EXTENDS Integers, Sequences, FiniteSets, TLC

VARIABLES
    dut,        \* SpecTrx: the transceiver variant the calls are made on
    trx,        \* the three AdiTrx objects owned by TxHal
    crashed,    \* the process dereferenced a null pointer and was killed
    lastCall,   \* observation of the last call: arguments, result, effects
    calls,      \* number of calls (SpecTrx) or of opens and selections made so far
    disk,       \* the dataset files the user can choose
    ui,         \* the presenter: members, list contents, enabled flags of the widgets
    hal,        \* TxHal: scan contexts, active variant, streaming
    parser,     \* the parser object of each dataset kind
    thread,     \* the worker thread of each dataset kind
    queue,      \* calls posted to the event loop of the main thread
    ghost       \* the parse the presenter started last: awaited, store before it

trxVars == <<dut, trx, crashed, lastCall, calls>>

presenterVars == <<disk, ui, hal, parser, thread, queue, ghost>>

vars == <<dut, trx, crashed, lastCall, calls, disk, ui, hal, parser, thread, queue, ghost>>

-----------------------------------------------------------------------------
(* AdiTrx: state shared by the three variants                              *)

TX_DEVICE_UNKNOWN == "UNKNOWN"
TX_DEVICE_AD9361 == "AD9361"
TX_DEVICE_AD9081 == "AD9081"
TX_DEVICE_ADRV9009 == "ADRV9009"

Variants == {TX_DEVICE_AD9361, TX_DEVICE_ADRV9009, TX_DEVICE_AD9081}

ZeroRange == [min |-> 0, step |-> 0, max |-> 0]

\* AdiTrx::AdiTrx: every pointer null, every setting and range zero.
AdiTrx ==
    [ mIioContext |-> FALSE, mPhyDev |-> FALSE, mTxDev |-> FALSE, mRxDev |-> FALSE,
      mTxPhyChan |-> FALSE, mTxLoChan |-> FALSE, mTxNcoChan |-> FALSE,
      mTx0_I |-> FALSE, mTx0_Q |-> FALSE,
      mTxBuf |-> FALSE, mTxBufIqPairsCount |-> 0,
      mTxBandwidth |-> 0, mTxSamplingFrequency |-> 0, mTxLoFrequency |-> 0,
      mTxHwGainDb |-> 0, mTxNcoGainScale |-> 0,
      mTxBandwidthParams |-> ZeroRange, mTxSamplingFrequencyParams |-> ZeroRange,
      mTxLoFrequencyParams |-> ZeroRange, mTxHwGainDbParams |-> ZeroRange,
      mInitialized |-> FALSE,
      mSignalData |-> [frameDataVec |-> <<>>, maxVal |-> 0],
      mFrameLength |-> 0, mFramesNr |-> 0,
      buffer |-> [slots |-> <<>>, pushes |-> 0], liveBuffers |-> 0 ]

\* The buffer objects left after iio_buffer_destroy( mTxBuf ), called when
\* mTxBuf is not null.
destroyed(t) == IF t.mTxBuf THEN t.liveBuffers - 1 ELSE t.liveBuffers

\* AdiTrx::resetTxBuffer: destroy the old buffer, create one of aLength
\* pairs unless aLength is 0; createOk is iio_device_create_buffer's outcome.
\* liveBuffers counts the buffer objects created and not destroyed.
resetTxBuffer(t, aLength, createOk) ==
    LET status == IF aLength # 0 THEN createOk ELSE TRUE
        created == (aLength # 0) /\ createOk
    IN  [ t |-> [t EXCEPT !.mTxBufIqPairsCount = aLength,
                          !.mTxBuf = created,
                          !.buffer = [slots |-> <<>>, pushes |-> 0],
                          !.liveBuffers = destroyed(t) + (IF created THEN 1 ELSE 0)],
          ret |-> status ]

\* AdiTrx::extractIntegerRange on the blank-separated tokens of the attribute
\* string (brackets stripped): three tokens are min, step, max; the range is
\* accepted when min < max and step < max - min.  The parsed values stay in
\* the range also when that last test fails.
extractIntegerRange(tokens) ==
    IF Len(tokens) # 3
    THEN [range |-> ZeroRange, ret |-> FALSE]
    ELSE [ range |-> [min |-> tokens[1], step |-> tokens[2], max |-> tokens[3]],
           ret |-> tokens[1] < tokens[3] /\ tokens[2] < tokens[3] - tokens[1] ]

\* AdiTrx::extractDoubleLimit: exactly one token, the limit.
extractDoubleLimit(tokens) ==
    IF Len(tokens) = 1 THEN [value |-> tokens[1], ret |-> TRUE]
    ELSE [value |-> 0, ret |-> FALSE]

\* The result of a setter: the object after the call, the returned status and
\* whether an attribute write reached the transport.
SetterResult(t, ret, wrote) == [t |-> t, ret |-> ret, wrote |-> wrote]

-----------------------------------------------------------------------------
(* AdiTrxAd9361 (variant A, 12 bit DAC)                                    *)

Ad9361InitSamplingFrequency == 2500000

Ad9361GainStep == 25

Ad9361_setTxBandwidth(t, aBandwidth, wrOk) ==
    LET inRange == aBandwidth >= t.mTxBandwidthParams.min
                   /\ aBandwidth <= t.mTxBandwidthParams.max
        status == inRange /\ wrOk
    IN  SetterResult(IF status THEN [t EXCEPT !.mTxBandwidth = aBandwidth] ELSE t,
                     status, inRange)

Ad9361_setTxHwGain(t, aHwGainDb, wrOk) ==
    LET inRange == aHwGainDb >= t.mTxHwGainDbParams.min
                   /\ aHwGainDb <= t.mTxHwGainDbParams.max
        status == inRange /\ wrOk
    IN  SetterResult(IF status THEN [t EXCEPT !.mTxHwGainDb = aHwGainDb] ELSE t,
                     status, inRange)

\* A setter that stores the value before the write has been acknowledged.
CacheBeforeWrite_setTxLoFrequency(t, aFrequency, wrOk) ==
    LET inRange == aFrequency >= t.mTxLoFrequencyParams.min
                   /\ aFrequency <= t.mTxLoFrequencyParams.max
    IN  SetterResult(IF inRange THEN [t EXCEPT !.mTxLoFrequency = aFrequency] ELSE t,
                     inRange /\ wrOk, inRange)

Ad9361_setTxLoFrequency(t, aFrequency, wrOk) ==
    LET inRange == aFrequency >= t.mTxLoFrequencyParams.min
                   /\ aFrequency <= t.mTxLoFrequencyParams.max
        status == inRange /\ wrOk
    IN  SetterResult(IF status THEN [t EXCEPT !.mTxLoFrequency = aFrequency] ELSE t,
                     status, inRange)

Ad9361_setTxSamplingFrequency(t, aFrequency, wrOk) ==
    LET inRange == aFrequency >= t.mTxSamplingFrequencyParams.min
                   /\ aFrequency <= t.mTxSamplingFrequencyParams.max
        status == inRange /\ wrOk
    IN  SetterResult(IF status THEN [t EXCEPT !.mTxSamplingFrequency = aFrequency] ELSE t,
                     status, inRange)

\* AdiTrxAd9361::setTxNcoGainScale: AD9081/AD9082 only.
Ad9361_setTxNcoGainScale(t, aGainScale, wrOk) == SetterResult(t, FALSE, FALSE)

\* AdiTrxAd9361::getTxHwGainParams: max 0, step 0.25, min read from
\* "hardwaregain_available".
Ad9361_getTxHwGainParams(t, readOk, tokens) ==
    LET t1 == [t EXCEPT !.mTxHwGainDbParams.max = 0,
                        !.mTxHwGainDbParams.step = Ad9361GainStep]
        lim == extractDoubleLimit(tokens)
    IN  IF readOk /\ lim.ret
        THEN [t |-> [t1 EXCEPT !.mTxHwGainDbParams.min = lim.value], ret |-> TRUE]
        ELSE [t |-> t1, ret |-> FALSE]

\* get*Params of variant A that parse "[min step max]".
Ad9361_getRangeParams(t, field, readOk, tokens) ==
    IF ~readOk THEN [t |-> t, ret |-> FALSE]
    ELSE LET r == extractIntegerRange(tokens)
         IN  [t |-> [t EXCEPT ![field] = r.range], ret |-> r.ret]


\* The outcome of initialize: the object, the returned status, and whether the
\* call passed a null channel to iio_channel_enable.
InitResult(t, ret, nullEnable) == [t |-> t, ret |-> ret, nullEnable |-> nullEnable]

\* The local state of initialize between two of its steps.
InitState(t, status, nullEnable) == [t |-> t, status |-> status, nullEnable |-> nullEnable]

\* The test made after looking up the Q streaming channel of variants A and B:
\* the source tests mTx0_I a second time.
QChannelStatusAB(t) == t.mTx0_I

\* The steps of AdiTrxAd9361::initialize, in order.  Each but the first is
\* guarded by "if( status )".
Ad9361InitSequence ==
    <<"ctx", "devCount", "phyDev", "txDev", "phyChan", "loChan", "I", "Q", "enable",
      "kbuf", "buffer", "bwAvail", "fsAvail", "loAvail", "gainAvail",
      "wrGain", "wrBw", "wrFs">>

\* What the transport can refuse during AdiTrxAd9361::initialize.
Ad9361Steps ==
    {"ctx", "devCount", "phyDev", "txDev", "phyChan", "loChan", "I", "Q", "kbuf",
     "bwAvail", "fsAvail", "loAvail", "gainAvail", "wrGain", "wrBw", "wrFs"}

\* One step of AdiTrxAd9361::initialize.  env.missing holds what the context
\* lacks or refuses; env.bwAttr, fsAttr, loAttr, gainAttr are the tokens of the
\* "*_available" attribute strings.
Ad9361_initStep(r, step, env) ==
    LET ok == step \notin env.missing
        t == r.t
        from(res) == InitState(res.t, res.ret, r.nullEnable)
    IN  CASE step = "ctx" -> InitState([t EXCEPT !.mIioContext = ok], ok, r.nullEnable)
          [] step = "devCount" -> [r EXCEPT !.status = ok]
          [] step = "phyDev" -> InitState([t EXCEPT !.mPhyDev = ok], ok, r.nullEnable)
          [] step = "txDev" -> InitState([t EXCEPT !.mTxDev = ok], ok, r.nullEnable)
          [] step = "phyChan" -> InitState([t EXCEPT !.mTxPhyChan = ok], ok, r.nullEnable)
          [] step = "loChan" -> InitState([t EXCEPT !.mTxLoChan = ok], ok, r.nullEnable)
          [] step = "I" -> InitState([t EXCEPT !.mTx0_I = ok], ok, r.nullEnable)
          [] step = "Q" ->
               InitState([t EXCEPT !.mTx0_Q = ok],
                         QChannelStatusAB([t EXCEPT !.mTx0_Q = ok]), r.nullEnable)
          [] step = "enable" -> [r EXCEPT !.nullEnable = ~t.mTx0_I \/ ~t.mTx0_Q]
          [] step = "kbuf" -> [r EXCEPT !.status = ok]
          [] step = "buffer" -> from(resetTxBuffer(t, 0, TRUE))
          [] step = "bwAvail" ->
               from(Ad9361_getRangeParams(t, "mTxBandwidthParams", ok, env.bwAttr))
          [] step = "fsAvail" ->
               from(Ad9361_getRangeParams(t, "mTxSamplingFrequencyParams", ok, env.fsAttr))
          [] step = "loAvail" ->
               from(Ad9361_getRangeParams(t, "mTxLoFrequencyParams", ok, env.loAttr))
          [] step = "gainAvail" -> from(Ad9361_getTxHwGainParams(t, ok, env.gainAttr))
          [] step = "wrGain" -> from(Ad9361_setTxHwGain(t, t.mTxHwGainDbParams.max, ok))
          [] step = "wrBw" -> from(Ad9361_setTxBandwidth(t, t.mTxBandwidthParams.max, ok))
          [] step = "wrFs" ->
               from(Ad9361_setTxSamplingFrequency(t, Ad9361InitSamplingFrequency, ok))

\* The steps of initialize from the i-th on: a step is skipped once status
\* is false.
RECURSIVE Ad9361_initFrom(_, _, _)
Ad9361_initFrom(r, i, env) ==
    IF i > Len(Ad9361InitSequence) THEN r
    ELSE CHOOSE out \in
           { Ad9361_initFrom(IF x.status THEN Ad9361_initStep(x, Ad9361InitSequence[i], env)
                             ELSE x, i + 1, env) : x \in {r} } : TRUE

\* AdiTrxAd9361::initialize.
Ad9361_initialize(t, env) ==
    CHOOSE out \in
      { InitResult([r.t EXCEPT !.mInitialized = r.status], r.status, r.nullEnable) :
        r \in {Ad9361_initFrom(InitState(t, TRUE, FALSE), 1, env)} } : TRUE

-----------------------------------------------------------------------------
(* AdiTrxAdrv9009 (variant B, 14 bit DAC)                                  *)

Adrv9009Bandwidth == 100000000

Adrv9009SamplingFrequency == 122880000

Adrv9009LoMax == 6000000

Adrv9009LoMin == 70000

Adrv9009LoStep == 1

Adrv9009GainMin == -3000

Adrv9009GainStep == 5

Adrv9009_getTxBandwidthParams(t) ==
    [t EXCEPT !.mTxBandwidthParams =
        [min |-> Adrv9009Bandwidth, step |-> 0, max |-> Adrv9009Bandwidth]]

Adrv9009_getTxSamplingFrequencyParams(t) ==
    [t EXCEPT !.mTxSamplingFrequencyParams =
        [min |-> Adrv9009SamplingFrequency, step |-> 0, max |-> Adrv9009SamplingFrequency]]

Adrv9009_getTxLoFrequencyParams(t) ==
    [t EXCEPT !.mTxLoFrequencyParams =
        [min |-> Adrv9009LoMin, step |-> Adrv9009LoStep, max |-> Adrv9009LoMax]]

Adrv9009_getTxHwGainParams(t) ==
    [t EXCEPT !.mTxHwGainDbParams =
        [min |-> Adrv9009GainMin, step |-> Adrv9009GainStep, max |-> 0]]

\* Bandwidth and sampling frequency of variant B are not writable.
Adrv9009_setTxBandwidth(t, aBandwidth, wrOk) == SetterResult(t, FALSE, FALSE)

Adrv9009_setTxSamplingFrequency(t, aFrequency, wrOk) == SetterResult(t, FALSE, FALSE)

Adrv9009_setTxNcoGainScale(t, aGainScale, wrOk) == SetterResult(t, FALSE, FALSE)

\* A setter that writes whatever it is given.
Unchecked_setTxHwGain(t, aHwGainDb, wrOk) ==
    SetterResult(IF wrOk THEN [t EXCEPT !.mTxHwGainDb = aHwGainDb] ELSE t, wrOk, TRUE)

Adrv9009_setTxHwGain(t, aHwGainDb, wrOk) ==
    LET inRange == aHwGainDb >= t.mTxHwGainDbParams.min
                   /\ aHwGainDb <= t.mTxHwGainDbParams.max
        status == inRange /\ wrOk
    IN  SetterResult(IF status THEN [t EXCEPT !.mTxHwGainDb = aHwGainDb] ELSE t,
                     status, inRange)

Adrv9009_setTxLoFrequency(t, aFrequency, wrOk) ==
    LET inRange == aFrequency >= t.mTxLoFrequencyParams.min
                   /\ aFrequency <= t.mTxLoFrequencyParams.max
        status == inRange /\ wrOk
    IN  SetterResult(IF status THEN [t EXCEPT !.mTxLoFrequency = aFrequency] ELSE t,
                     status, inRange)

Adrv9009InitSequence ==
    <<"ctx", "devCount", "phyDev", "txDev", "phyChan", "loChan", "I", "Q", "enable",
      "buffer", "bwParams", "fsParams", "loParams", "gainParams">>

Adrv9009Steps == {"ctx", "devCount", "phyDev", "txDev", "phyChan", "loChan", "I", "Q"}

\* One step of AdiTrxAdrv9009::initialize.
Adrv9009_initStep(r, step, env) ==
    LET ok == step \notin env.missing
        t == r.t
    IN  CASE step = "ctx" -> InitState([t EXCEPT !.mIioContext = ok], ok, r.nullEnable)
          [] step = "devCount" -> [r EXCEPT !.status = ok]
          [] step = "phyDev" -> InitState([t EXCEPT !.mPhyDev = ok], ok, r.nullEnable)
          [] step = "txDev" -> InitState([t EXCEPT !.mTxDev = ok], ok, r.nullEnable)
          [] step = "phyChan" -> InitState([t EXCEPT !.mTxPhyChan = ok], ok, r.nullEnable)
          [] step = "loChan" -> InitState([t EXCEPT !.mTxLoChan = ok], ok, r.nullEnable)
          [] step = "I" -> InitState([t EXCEPT !.mTx0_I = ok], ok, r.nullEnable)
          [] step = "Q" ->
               InitState([t EXCEPT !.mTx0_Q = ok],
                         QChannelStatusAB([t EXCEPT !.mTx0_Q = ok]), r.nullEnable)
          [] step = "enable" -> [r EXCEPT !.nullEnable = ~t.mTx0_I \/ ~t.mTx0_Q]
          [] step = "buffer" ->
               InitState(resetTxBuffer(t, 0, TRUE).t, resetTxBuffer(t, 0, TRUE).ret,
                         r.nullEnable)
          [] step = "bwParams" -> [r EXCEPT !.t = Adrv9009_getTxBandwidthParams(t)]
          [] step = "fsParams" -> [r EXCEPT !.t = Adrv9009_getTxSamplingFrequencyParams(t)]
          [] step = "loParams" -> [r EXCEPT !.t = Adrv9009_getTxLoFrequencyParams(t)]
          [] step = "gainParams" -> [r EXCEPT !.t = Adrv9009_getTxHwGainParams(t)]

RECURSIVE Adrv9009_initFrom(_, _, _)
Adrv9009_initFrom(r, i, env) ==
    IF i > Len(Adrv9009InitSequence) THEN r
    ELSE CHOOSE out \in
           { Adrv9009_initFrom(IF x.status
                               THEN Adrv9009_initStep(x, Adrv9009InitSequence[i], env)
                               ELSE x, i + 1, env) : x \in {r} } : TRUE

\* AdiTrxAdrv9009::initialize.
Adrv9009_initialize(t, env) ==
    CHOOSE out \in
      { InitResult([r.t EXCEPT !.mInitialized = r.status], r.status, r.nullEnable) :
        r \in {Adrv9009_initFrom(InitState(t, TRUE, FALSE), 1, env)} } : TRUE

-----------------------------------------------------------------------------
(* AdiTrxAd9081 (variant C, 16 bit DAC)                                    *)

NcoGainScaleMax == 100

\* Bandwidth, hardware gain and sampling frequency of variant C are not writable.
Ad9081_setTxBandwidth(t, aBandwidth, wrOk) == SetterResult(t, FALSE, FALSE)

Ad9081_setTxHwGain(t, aHwGainDb, wrOk) == SetterResult(t, FALSE, FALSE)

Ad9081_setTxSamplingFrequency(t, aFrequency, wrOk) == SetterResult(t, FALSE, FALSE)

Ad9081_setTxLoFrequency(t, aFrequency, wrOk) ==
    LET inRange == aFrequency >= t.mTxLoFrequencyParams.min
                   /\ aFrequency <= t.mTxLoFrequencyParams.max
        status == inRange /\ wrOk
    IN  SetterResult(IF status THEN [t EXCEPT !.mTxLoFrequency = aFrequency] ELSE t,
                     status, inRange)

\* AdiTrxAd9081::setTxNcoGainScale: the scale is checked against [0, 1] and
\* written; mTxNcoGainScale is not assigned.
Ad9081_setTxNcoGainScale(t, aGainScale, wrOk) ==
    LET inRange == aGainScale >= 0 /\ aGainScale <= NcoGainScaleMax
        status == inRange /\ wrOk
    IN  SetterResult(t, status, inRange)

Ad9081_getTxLoFrequencyParams(t, readOk, tokens) ==
    IF ~readOk THEN [t |-> t, ret |-> FALSE]
    ELSE LET r == extractIntegerRange(tokens)
         IN  [t |-> [t EXCEPT !.mTxLoFrequencyParams = r.range], ret |-> r.ret]

Ad9081InitSequence ==
    <<"ctx", "devCount", "txDev", "rxDev", "ncoChan", "I", "Q", "enable", "buffer",
      "loAvail", "wrChFreq", "wrChPhase", "wrChToneEn", "wrChToneScale", "wrLoPower",
      "wrMainPhase", "wrMainToneEn", "wrMainToneScale">>

Ad9081Steps ==
    {"ctx", "devCount", "txDev", "rxDev", "ncoChan", "I", "Q", "loAvail",
     "wrChFreq", "wrChPhase", "wrChToneEn", "wrChToneScale", "wrLoPower",
     "wrMainPhase", "wrMainToneEn", "wrMainToneScale"}

\* The test made after looking up the Q streaming channel of variant C.
QChannelStatusC(t) == t.mTx0_Q

\* One step of AdiTrxAd9081::initialize; the steps not listed are attribute
\* writes whose only effect here is their status.
Ad9081_initStep(r, step, env) ==
    LET ok == step \notin env.missing
        t == r.t
    IN  CASE step = "ctx" -> InitState([t EXCEPT !.mIioContext = ok], ok, r.nullEnable)
          [] step = "txDev" -> InitState([t EXCEPT !.mTxDev = ok], ok, r.nullEnable)
          [] step = "rxDev" -> InitState([t EXCEPT !.mRxDev = ok], ok, r.nullEnable)
          [] step = "ncoChan" -> InitState([t EXCEPT !.mTxNcoChan = ok], ok, r.nullEnable)
          [] step = "I" -> InitState([t EXCEPT !.mTx0_I = ok], ok, r.nullEnable)
          [] step = "Q" ->
               InitState([t EXCEPT !.mTx0_Q = ok],
                         QChannelStatusC([t EXCEPT !.mTx0_Q = ok]), r.nullEnable)
          [] step = "enable" -> [r EXCEPT !.nullEnable = ~t.mTx0_I \/ ~t.mTx0_Q]
          [] step = "buffer" ->
               InitState(resetTxBuffer(t, 0, TRUE).t, resetTxBuffer(t, 0, TRUE).ret,
                         r.nullEnable)
          [] step = "loAvail" ->
               InitState(Ad9081_getTxLoFrequencyParams(t, ok, env.loAttr).t,
                         Ad9081_getTxLoFrequencyParams(t, ok, env.loAttr).ret,
                         r.nullEnable)
          [] OTHER -> [r EXCEPT !.status = ok]

RECURSIVE Ad9081_initFrom(_, _, _)
Ad9081_initFrom(r, i, env) ==
    IF i > Len(Ad9081InitSequence) THEN r
    ELSE CHOOSE out \in
           { Ad9081_initFrom(IF x.status
                             THEN Ad9081_initStep(x, Ad9081InitSequence[i], env)
                             ELSE x, i + 1, env) : x \in {r} } : TRUE

\* AdiTrxAd9081::initialize.
Ad9081_initialize(t, env) ==
    CHOOSE out \in
      { InitResult([r.t EXCEPT !.mInitialized = r.status], r.status, r.nullEnable) :
        r \in {Ad9081_initFrom(InitState(t, TRUE, FALSE), 1, env)} } : TRUE

-----------------------------------------------------------------------------
(* Dispatch over the variant, as TxHal does                               *)

\* AdiTrx::freeResources: buffer, channels and context are released and
\* nulled; the device pointers and mInitialized are left as they are.
freeResources(t) ==
    [t EXCEPT !.mTxBuf = FALSE, !.buffer = [slots |-> <<>>, pushes |-> 0],
              !.liveBuffers = destroyed(t),
              !.mTx0_I = FALSE, !.mTx0_Q = FALSE,
              !.mTxNcoChan = FALSE, !.mTxLoChan = FALSE, !.mTxPhyChan = FALSE,
              !.mIioContext = FALSE]

Steps(dev) ==
    CASE dev = TX_DEVICE_AD9361 -> Ad9361Steps
      [] dev = TX_DEVICE_ADRV9009 -> Adrv9009Steps
      [] dev = TX_DEVICE_AD9081 -> Ad9081Steps

initialize(dev, t, env) ==
    CASE dev = TX_DEVICE_AD9361 -> Ad9361_initialize(t, env)
      [] dev = TX_DEVICE_ADRV9009 -> Adrv9009_initialize(t, env)
      [] dev = TX_DEVICE_AD9081 -> Ad9081_initialize(t, env)

Params == {"lo", "fs", "bw", "gain", "nco"}

\* The member that caches each parameter.
CacheField(param) ==
    CASE param = "lo" -> "mTxLoFrequency"
      [] param = "fs" -> "mTxSamplingFrequency"
      [] param = "bw" -> "mTxBandwidth"
      [] param = "gain" -> "mTxHwGainDb"
      [] param = "nco" -> "mTxNcoGainScale"

setTx(dev, param, t, arg, wrOk) ==
    CASE dev = TX_DEVICE_AD9361 /\ param = "lo" -> Ad9361_setTxLoFrequency(t, arg, wrOk)
      [] dev = TX_DEVICE_AD9361 /\ param = "fs" -> Ad9361_setTxSamplingFrequency(t, arg, wrOk)
      [] dev = TX_DEVICE_AD9361 /\ param = "bw" -> Ad9361_setTxBandwidth(t, arg, wrOk)
      [] dev = TX_DEVICE_AD9361 /\ param = "gain" -> Ad9361_setTxHwGain(t, arg, wrOk)
      [] dev = TX_DEVICE_AD9361 /\ param = "nco" -> Ad9361_setTxNcoGainScale(t, arg, wrOk)
      [] dev = TX_DEVICE_ADRV9009 /\ param = "lo" -> Adrv9009_setTxLoFrequency(t, arg, wrOk)
      [] dev = TX_DEVICE_ADRV9009 /\ param = "fs" -> Adrv9009_setTxSamplingFrequency(t, arg, wrOk)
      [] dev = TX_DEVICE_ADRV9009 /\ param = "bw" -> Adrv9009_setTxBandwidth(t, arg, wrOk)
      [] dev = TX_DEVICE_ADRV9009 /\ param = "gain" -> Adrv9009_setTxHwGain(t, arg, wrOk)
      [] dev = TX_DEVICE_ADRV9009 /\ param = "nco" -> Adrv9009_setTxNcoGainScale(t, arg, wrOk)
      [] dev = TX_DEVICE_AD9081 /\ param = "lo" -> Ad9081_setTxLoFrequency(t, arg, wrOk)
      [] dev = TX_DEVICE_AD9081 /\ param = "fs" -> Ad9081_setTxSamplingFrequency(t, arg, wrOk)
      [] dev = TX_DEVICE_AD9081 /\ param = "bw" -> Ad9081_setTxBandwidth(t, arg, wrOk)
      [] dev = TX_DEVICE_AD9081 /\ param = "gain" -> Ad9081_setTxHwGain(t, arg, wrOk)
      [] dev = TX_DEVICE_AD9081 /\ param = "nco" -> Ad9081_setTxNcoGainScale(t, arg, wrOk)

-----------------------------------------------------------------------------
(* Dataset: sources and their dimensions                                   *)

DATASET_SOURCE_RADIOML_2016_10A == "RADIOML_2016_10A"
DATASET_SOURCE_RADIOML_2018_01 == "RADIOML_2018_01"
DATASET_SOURCE_HISARMOD_2019_1 == "HISARMOD_2019_1"

DatasetSources ==
    {DATASET_SOURCE_RADIOML_2016_10A, DATASET_SOURCE_RADIOML_2018_01,
     DATASET_SOURCE_HISARMOD_2019_1}

\* The dimensions of the datasets, scaled down: the sources have frames of
\* 128 or 1024 points, 500 to 4096 frames per combination, 11 to 26
\* modulations and 20 or 26 SNRs.
LengthBound == 2

FramesBound == 2

ModsBound == 2

SnrsBound == 2

FRAME_LENGTH == [k \in DatasetSources |-> LengthBound]

FRAMES_PER_MOD_SNR_NR == [k \in DatasetSources |-> FramesBound]

MODULATIONS_NR == [k \in DatasetSources |-> ModsBound]

SNRS_NR == [k \in DatasetSources |-> SnrsBound]

\* Dataset::FRAME_LENGTH as the source has it.  The sampling frequency
\* depends on the ratio of these lengths, which the scaling does not keep.
SOURCE_FRAME_LENGTH ==
    [k \in DatasetSources |->
       CASE k = DATASET_SOURCE_RADIOML_2016_10A -> 128
         [] k = DATASET_SOURCE_RADIOML_2018_01 -> 1024
         [] k = DATASET_SOURCE_HISARMOD_2019_1 -> 1024]

-----------------------------------------------------------------------------
(* Modulation names                                                        *)

NAME_UNKNOWN == "UNKNOWN"

\* enum ModulationName, in declaration order: std::sort orders by it.
ModulationNames ==
    << "UNKNOWN", "AM_SSB", "AM_SSB_WC", "AM_SSB_SC", "AM_DSB", "AM_DSB_WC",
       "AM_DSB_SC", "AM_USB", "AM_LSB", "FM", "WBFM", "PM", "16APSK", "32APSK",
       "64APSK", "128APSK", "OOK", "4ASK", "8ASK", "2FSK", "4FSK", "8FSK", "16FSK",
       "GFSK", "CPFSK", "GMSK", "BPSK", "QPSK", "8PSK", "16PSK", "32PSK", "64PSK",
       "OQPSK", "4PAM", "8PAM", "16PAM", "4QAM", "8QAM", "16QAM", "32QAM", "64QAM",
       "128QAM", "256QAM" >>

ModulationOrdinal(name) == CHOOSE i \in 1..Len(ModulationNames) : ModulationNames[i] = name

\* Modulation::MODULATION_NAME_ALIAS in key order: each name with the strings it
\* is known by.
MODULATION_NAME_ALIAS ==
    << <<"UNKNOWN", {""}>>, <<"AM_SSB", {"AM-SSB"}>>,
       <<"AM_SSB_WC", {"AM-SSB WC"}>>, <<"AM_SSB_SC", {"AM-SSB SC"}>>,
       <<"AM_DSB", {"AM-DSB"}>>, <<"AM_DSB_WC", {"AM-DSB WC"}>>,
       <<"AM_DSB_SC", {"AM-DSB SC"}>>, <<"AM_USB", {"AM-USB"}>>,
       <<"AM_LSB", {"AM-LSB"}>>, <<"FM", {"FM"}>>, <<"WBFM", {"WBFM"}>>,
       <<"PM", {"PM"}>>, <<"16APSK", {"16APSK", "APSK16"}>>,
       <<"32APSK", {"32APSK", "APSK32"}>>, <<"64APSK", {"64APSK", "APSK64"}>>,
       <<"128APSK", {"128APSK", "APSK128"}>>,
       <<"OOK", {"OOK", "2ASK", "ASK2"}>>, <<"4ASK", {"4ASK", "ASK4"}>>,
       <<"8ASK", {"8ASK", "ASK8"}>>, <<"2FSK", {"2FSK", "FSK2"}>>,
       <<"4FSK", {"4FSK", "FSK4"}>>, <<"8FSK", {"8FSK", "FSK8"}>>,
       <<"16FSK", {"16FSK", "FSK16"}>>, <<"GFSK", {"GFSK"}>>,
       <<"CPFSK", {"CPFSK"}>>, <<"GMSK", {"GMSK"}>>,
       <<"BPSK", {"BPSK", "2PSK", "PSK2"}>>,
       <<"QPSK", {"QPSK", "4PSK", "PSK4"}>>, <<"8PSK", {"8PSK", "PSK8"}>>,
       <<"16PSK", {"16PSK", "PSK16"}>>, <<"32PSK", {"32PSK", "PSK32"}>>,
       <<"64PSK", {"64PSK", "PSK64"}>>, <<"OQPSK", {"OQPSK"}>>,
       <<"4PAM", {"4PAM", "PAM4"}>>, <<"8PAM", {"8PAM", "PAM8"}>>,
       <<"16PAM", {"16PAM", "PAM16"}>>, <<"4QAM", {"4QAM", "QAM4"}>>,
       <<"8QAM", {"8QAM", "QAM8"}>>, <<"16QAM", {"16QAM", "QAM16"}>>,
       <<"32QAM", {"32QAM", "QAM32"}>>, <<"64QAM", {"64QAM", "QAM64"}>>,
       <<"128QAM", {"128QAM", "QAM128"}>>, <<"256QAM", {"256QAM", "QAM256"}>> >>

\* Modulation::getModulationName: the first name, Unknown skipped, one of
\* whose aliases is the string; Unknown when there is none.
getModulationName(aString) ==
    LET hits == {i \in 2..Len(MODULATION_NAME_ALIAS) : aString \in MODULATION_NAME_ALIAS[i][2]}
    IN  IF hits = {} THEN NAME_UNKNOWN
        ELSE MODULATION_NAME_ALIAS[CHOOSE i \in hits : \A j \in hits : i <= j][1]

-----------------------------------------------------------------------------
(* DatasetParser: what the three parsers share                             *)

EmptyMap == [k \in {} |-> 0]

\* std::map::insert: an existing key keeps its value.
MapInsert(m, key, value) ==
    IF key \in DOMAIN m THEN m
    ELSE [k \in DOMAIN m \cup {key} |-> IF k = key THEN value ELSE m[k]]

Range(seq) == {seq[i] : i \in 1..Len(seq)}

RECURSIVE SortedSeq(_)
\* The numbers of S in increasing order.
SortedSeq(S) ==
    IF S = {} THEN <<>>
    ELSE LET least == CHOOSE x \in S : \A y \in S : x <= y
         IN  <<least>> \o SortedSeq(S \ {least})

\* DatasetParser::removeDuplicates, for SNRs and for modulation names.
removeDuplicatesSnr(aVector) == SortedSeq(Range(aVector))

removeDuplicatesMod(aVector) ==
    LET ordinals == SortedSeq({ModulationOrdinal(m) : m \in Range(aVector)})
    IN  [j \in 1..Len(ordinals) |-> ModulationNames[ordinals[j]]]

\* No file: what a parser object holds before DatasetParser::setFile.
NoFile == [isOpen |-> FALSE]

\* What a parse has taken from the container for the dataset X: the number
\* of elements its buffer was allocated for, and the first element and the
\* number of elements of the selection read into it.
NothingLoaded == [allocated |-> 0, first |-> 0, count |-> 0]

\* The buffer of the record of the dataset X in the tree of the last walk:
\* how often it was allocated and released, and whether the record's
\* mDataBuffer is not the null pointer (Hdf5Dataset::Hdf5Dataset sets it null).
NoBuffer == [mallocs |-> 0, frees |-> 0, mDataBuffer |-> FALSE]

\* DatasetParser::DatasetParser.  The fields loaded and buffer are not in the
\* source: they record the allocation, the read and the release of
\* Hdf5Parser::loadTreeItem.
DatasetParser ==
    [ mFileName |-> NoFile, mStatus |-> TRUE, mUniqueModVec |-> <<>>, mUniqueSnrVec |-> <<>>,
      mSingleModulation |-> NAME_UNKNOWN, mMap |-> EmptyMap, loaded |-> NothingLoaded,
      buffer |-> NoBuffer ]

Abs(x) == IF x < 0 THEN -x ELSE x

\* A point and the largest magnitude seen so far.
MaxAbs(maxVal, point) ==
    LET a == IF Abs(point.i) > maxVal THEN Abs(point.i) ELSE maxVal
    IN  IF Abs(point.q) > a THEN Abs(point.q) ELSE a

RECURSIVE MaxAbsOver(_, _, _)
MaxAbsOver(maxVal, frame, j) ==
    CHOOSE out \in
      { IF j > Len(frame) THEN x
        ELSE MaxAbsOver(MaxAbs(x, frame[j]), frame, j + 1) : x \in {maxVal} } : TRUE

\* Text is a sequence of one-character strings.
Digits == {"0", "1", "2", "3", "4", "5", "6", "7", "8", "9"}

DigitValue(c) ==
    CASE c = "0" -> 0 [] c = "1" -> 1 [] c = "2" -> 2 [] c = "3" -> 3 [] c = "4" -> 4
      [] c = "5" -> 5 [] c = "6" -> 6 [] c = "7" -> 7 [] c = "8" -> 8 [] c = "9" -> 9

RECURSIVE AtofDigits(_, _, _)
AtofDigits(text, j, acc) ==
    IF j > Len(text) \/ text[j] \notin Digits THEN acc
    ELSE AtofDigits(text, j + 1, 10 * acc + DigitValue(text[j]))

RECURSIVE SkipSpaces(_)
SkipSpaces(text) ==
    IF text # <<>> /\ Head(text) = " " THEN SkipSpaces(Tail(text)) ELSE text

\* atof/atoi on whole numbers: leading blanks, an optional sign and the
\* digits that follow; conversion stops at the first other character.
Atof(text) ==
    LET t == SkipSpaces(text)
    IN  IF t = <<>> THEN 0
        ELSE IF t[1] = "-" THEN -AtofDigits(t, 2, 0)
        ELSE IF t[1] = "+" THEN AtofDigits(t, 2, 0)
        ELSE AtofDigits(t, 1, 0)

NPOS == -1

\* std::string::find of a character from a 0-based position.
Find(text, c, from) ==
    LET hits == {j \in from..(Len(text) - 1) : text[j + 1] = c}
    IN  IF hits = {} THEN NPOS ELSE CHOOSE j \in hits : \A k \in hits : j <= k

\* std::string::find of a string from a 0-based position.
FindStr(text, str, from) ==
    LET hits == {j \in from..(Len(text) - Len(str)) :
                    SubSeq(text, j + 1, j + Len(str)) = str}
    IN  IF hits = {} THEN NPOS ELSE CHOOSE j \in hits : \A k \in hits : j <= k

\* std::string::substr( pos, n ).  A length computed from npos is, as an
\* unsigned number, larger than any text: the text from pos to its end.
Substr(text, pos, n) ==
    LET last == IF n < 0 \/ pos + n > Len(text) THEN Len(text) ELSE pos + n
    IN  SubSeq(text, pos + 1, last)

\* A SignalData: the frames of one (modulation, SNR) combination and the
\* largest magnitude of their components.
SignalData(frames, maxVal) == [frameDataVec |-> frames, maxVal |-> maxVal]

\* The slot's first statements: distinct vectors and map are cleared.
parseCleared(p) ==
    [p EXCEPT !.mUniqueModVec = <<>>, !.mUniqueSnrVec = <<>>, !.mMap = EmptyMap,
              !.loaded = NothingLoaded]

-----------------------------------------------------------------------------
(* CsvParser (HisarMod 2019.1): one frame per line, cells "I+Qi"           *)

Csv_MODULATION_MAPPING(code) ==
    CASE code = 0 -> "BPSK" [] code = 10 -> "QPSK" [] code = 20 -> "8PSK"
      [] code = 30 -> "16PSK" [] code = 40 -> "32PSK" [] code = 50 -> "64PSK"
      [] code = 1 -> "4QAM" [] code = 11 -> "8QAM" [] code = 21 -> "16QAM"
      [] code = 31 -> "32QAM" [] code = 41 -> "64QAM" [] code = 51 -> "128QAM"
      [] code = 61 -> "256QAM"
      [] code = 2 -> "2FSK" [] code = 12 -> "4FSK" [] code = 22 -> "8FSK"
      [] code = 32 -> "16FSK"
      [] code = 3 -> "4PAM" [] code = 13 -> "8PAM" [] code = 23 -> "16PAM"
      [] code = 4 -> "AM_DSB" [] code = 14 -> "AM_DSB_SC" [] code = 24 -> "AM_USB"
      [] code = 34 -> "AM_LSB" [] code = 44 -> "FM" [] code = 54 -> "PM"

MODULATION_SERIES ==
    << 4, 14, 44, 32, 2, 12, 22, 34, 23, 3, 13, 54, 30, 0, 40, 10, 50, 20, 51, 21,
       61, 31, 1, 41, 11, 24 >>

\* CsvParser::getPoint: the text is split at the first "+" after its first
\* character or, when there is none, at the first "-" after it; the last
\* character (the "i") is dropped.  Text without such a sign is the point (0, 0).
getPoint(aString) ==
    LET plus == Find(aString, "+", 1)
        sepSignIndex == IF plus = NPOS THEN Find(aString, "-", 1) ELSE plus
    IN  IF sepSignIndex = NPOS THEN [i |-> 0, q |-> 0]
        ELSE [ i |-> Atof(Substr(aString, 0, sepSignIndex)),
               q |-> Atof(Substr(aString, sepSignIndex,
                                 Len(aString) - sepSignIndex - 1)) ]

\* The locals of CsvParser::parseDataset before the first line.
Csv_start ==
    [ crtLineNr |-> 0, oldSnrDb |-> -100, oldModInt |-> -1,
      modSnrPair |-> <<NAME_UNKNOWN, 0>>, frames |-> <<>>, maxVal |-> 0,
      mods |-> <<>>, snrs |-> <<>>, map |-> EmptyMap, parseFailed |-> FALSE ]

\* Csv_line that keeps the frames of the combination before.
KeepsFrames_Csv_line(st, line) ==
    LET K == DATASET_SOURCE_HISARMOD_2019_1
        NR_LINES_PER_SNR == FRAMES_PER_MOD_SNR_NR[K] * MODULATIONS_NR[K]
        crtSnrDb == -20 + 2 * (st.crtLineNr \div NR_LINES_PER_SNR)
        crtModInt ==
            MODULATION_SERIES[((st.crtLineNr % NR_LINES_PER_SNR)
                               \div FRAMES_PER_MOD_SNR_NR[K]) + 1]
        modName == Csv_MODULATION_MAPPING(crtModInt)
        newCombination == crtSnrDb # st.oldSnrDb \/ crtModInt # st.oldModInt
        frameData == [j \in 1..Len(line) |-> getPoint(line[j])]
        s1 == IF newCombination
              THEN [st EXCEPT !.mods = Append(st.mods, modName),
                              !.snrs = Append(st.snrs, crtSnrDb),
                              !.modSnrPair = <<modName, crtSnrDb>>,
                              !.maxVal = 0]
              ELSE st
        s2 == [s1 EXCEPT !.maxVal = MaxAbsOver(s1.maxVal, frameData, 1)]
        s3 == [s2 EXCEPT !.frames = Append(s2.frames, frameData)]
        atLast == st.crtLineNr # 0
                  /\ (st.crtLineNr + 1) % FRAMES_PER_MOD_SNR_NR[K] = 0
    IN  IF FRAME_LENGTH[K] # Len(frameData)
        THEN [s2 EXCEPT !.parseFailed = TRUE]
        ELSE IF atLast /\ FRAMES_PER_MOD_SNR_NR[K] # Len(s3.frames)
        THEN [s3 EXCEPT !.parseFailed = TRUE]
        ELSE [s3 EXCEPT
                !.map = IF atLast
                        THEN MapInsert(s3.map, s3.modSnrPair,
                                       SignalData(s3.frames, s3.maxVal))
                        ELSE s3.map,
                !.oldSnrDb = crtSnrDb, !.oldModInt = crtModInt,
                !.crtLineNr = st.crtLineNr + 1]

\* One pass of the getline loop: line is the sequence of the line's cells.
Csv_line(st, line) ==
    LET K == DATASET_SOURCE_HISARMOD_2019_1
        NR_LINES_PER_SNR == FRAMES_PER_MOD_SNR_NR[K] * MODULATIONS_NR[K]
        crtSnrDb == -20 + 2 * (st.crtLineNr \div NR_LINES_PER_SNR)
        crtModInt ==
            MODULATION_SERIES[((st.crtLineNr % NR_LINES_PER_SNR)
                               \div FRAMES_PER_MOD_SNR_NR[K]) + 1]
        modName == Csv_MODULATION_MAPPING(crtModInt)
        newCombination == crtSnrDb # st.oldSnrDb \/ crtModInt # st.oldModInt
        frameData == [j \in 1..Len(line) |-> getPoint(line[j])]
        s1 == IF newCombination
              THEN [st EXCEPT !.mods = Append(st.mods, modName),
                              !.snrs = Append(st.snrs, crtSnrDb),
                              !.modSnrPair = <<modName, crtSnrDb>>,
                              !.frames = <<>>, !.maxVal = 0]
              ELSE st
        s2 == [s1 EXCEPT !.maxVal = MaxAbsOver(s1.maxVal, frameData, 1)]
        s3 == [s2 EXCEPT !.frames = Append(s2.frames, frameData)]
        atLast == st.crtLineNr # 0
                  /\ (st.crtLineNr + 1) % FRAMES_PER_MOD_SNR_NR[K] = 0
    IN  IF FRAME_LENGTH[K] # Len(frameData)
        THEN [s2 EXCEPT !.parseFailed = TRUE]
        ELSE IF atLast /\ FRAMES_PER_MOD_SNR_NR[K] # Len(s3.frames)
        THEN [s3 EXCEPT !.parseFailed = TRUE]
        ELSE [s3 EXCEPT
                !.map = IF atLast
                        THEN MapInsert(s3.map, s3.modSnrPair,
                                       SignalData(s3.frames, s3.maxVal))
                        ELSE s3.map,
                !.oldSnrDb = crtSnrDb, !.oldModInt = crtModInt,
                !.crtLineNr = st.crtLineNr + 1]

\* The getline loop from the state st on; it ends at the end of the file or
\* at the first failure.
RECURSIVE Csv_lines(_, _)
Csv_lines(st, lines) ==
    CHOOSE out \in
      { IF x.parseFailed \/ x.crtLineNr >= Len(lines) THEN x
        ELSE Csv_lines(Csv_line(x, lines[x.crtLineNr + 1]), lines) : x \in {st} } : TRUE

\* CsvParser::parseDataset on the parser object p, whose file is p.mFileName.
Csv_parseDataset(p) ==
    CHOOSE out \in
      { LET K == DATASET_SOURCE_HISARMOD_2019_1
            mods == removeDuplicatesMod(st.mods)
            snrs == removeDuplicatesSnr(st.snrs)
        IN  [p EXCEPT !.mUniqueModVec = mods, !.mUniqueSnrVec = snrs, !.mMap = st.map,
                      !.mStatus = ~(st.parseFailed \/ MODULATIONS_NR[K] # Len(mods)
                                    \/ SNRS_NR[K] # Len(snrs))] :
        st \in {IF p.mFileName.isOpen THEN Csv_lines(Csv_start, p.mFileName.lines)
                ELSE Csv_start} } : TRUE

-----------------------------------------------------------------------------
(* PklParser (RadioML 2016.10A): the text the pickle loader prints          *)
(* The text is a sequence of elements: one per character, except that a     *)
(* modulation name is one element.  Positions are counted in elements.      *)
(* npos is -1: npos + 1 is 0, as it is for the unsigned index of the scan.  *)

SEPARATOR_STR == <<",", " ">>

\* The string an element sequence of length one stands for.
TextString(text) == IF Len(text) = 1 THEN text[1] ELSE ""

\* The locals of PklParser::parseDataset before the scan.
Pkl_start(text) ==
    [ i |-> 0, inModSnr |-> FALSE, modSnrPair |-> <<NAME_UNKNOWN, 0>>,
      mods |-> <<>>, snrs |-> <<>>, map |-> EmptyMap, parseFailed |-> (Len(text) = 0),
      restarts |-> 0 ]

\* The scan index after a group: one past its closing parenthesis.  When the
\* text has no closing parenthesis the index is npos, and the increment of
\* the loop takes the scan back to position 0.
Pkl_after(st, closingIndex) ==
    [st EXCEPT !.i = closingIndex + 1,
               !.restarts = IF closingIndex = NPOS THEN st.restarts + 1 ELSE st.restarts]

\* The "(modulation, SNR)" group that opens at position st.i.
Pkl_modSnr(st, text) ==
    LET closingModSnrIndex == Find(text, ")", st.i + 1)
        modSnrStr == Substr(text, st.i + 1, closingModSnrIndex - st.i - 1)
        startModIndex == Find(modSnrStr, "'", 0)
        closingModIndex == Find(modSnrStr, "'", startModIndex + 1)
        modStr == Substr(modSnrStr, startModIndex + 1, closingModIndex - startModIndex - 1)
        modName == getModulationName(TextString(modStr))
        separatorIndex == FindStr(modSnrStr, SEPARATOR_STR, 0)
        START_INDEX == separatorIndex + Len(SEPARATOR_STR)
        snrDb == Atof(Substr(modSnrStr, START_INDEX, Len(modSnrStr) - START_INDEX))
    IN  IF startModIndex = NPOS \/ closingModIndex = NPOS \/ separatorIndex = NPOS
        THEN [st EXCEPT !.parseFailed = TRUE, !.inModSnr = TRUE]
        ELSE Pkl_after([st EXCEPT !.inModSnr = TRUE,
                                  !.mods = Append(st.mods, modName),
                                  !.snrs = Append(st.snrs, snrDb),
                                  !.modSnrPair = <<modName, snrDb>>],
                       closingModSnrIndex)

\* The comma-separated values of the text between "[" and "]".
RECURSIVE Pkl_values(_, _, _)
Pkl_values(DATA_STR, j, fltVec) ==
    CHOOSE out \in
      { IF x.j >= Len(DATA_STR) THEN x.fltVec
        ELSE LET commaIndex == Find(DATA_STR, ",", x.j + 1)
             IN  IF commaIndex # NPOS
                 THEN Pkl_values(DATA_STR, commaIndex + 1,
                        Append(x.fltVec, Atof(Substr(DATA_STR, x.j, commaIndex - x.j))))
                 ELSE Append(x.fltVec, Atof(Substr(DATA_STR, x.j, Len(DATA_STR) - x.j))) :
        x \in {[j |-> j, fltVec |-> fltVec]} } : TRUE

\* Pkl_frame that takes one point less than the frame length.
OnePointShort_Pkl_frame(fltVec, crtFrame) ==
    LET L == FRAME_LENGTH[DATASET_SOURCE_RADIOML_2016_10A]
    IN  [ n \in 1..(L - 1) |->
            LET pointIndex == (n - 1) + crtFrame * 2 * L
            IN  [i |-> fltVec[pointIndex + 1], q |-> fltVec[pointIndex + L + 1]] ]

\* Frame crtFrame (from 0) of a value vector: the I parts, then the Q parts.
Pkl_frame(fltVec, crtFrame) ==
    LET L == FRAME_LENGTH[DATASET_SOURCE_RADIOML_2016_10A]
    IN  [ n \in 1..L |->
            LET pointIndex == (n - 1) + crtFrame * 2 * L
            IN  [i |-> fltVec[pointIndex + 1], q |-> fltVec[pointIndex + L + 1]] ]

RECURSIVE Pkl_maxVal(_, _, _)
Pkl_maxVal(maxVal, frames, f) ==
    CHOOSE out \in
      { IF f > Len(frames) THEN x
        ELSE Pkl_maxVal(MaxAbsOver(x, frames[f], 1), frames, f + 1) : x \in {maxVal} } : TRUE

\* The "array([...])" group that opens at position st.i.
Pkl_array(st, text) ==
    LET K == DATASET_SOURCE_RADIOML_2016_10A
        EXPECTED_DBL_VALUES == FRAME_LENGTH[K] * FRAMES_PER_MOD_SNR_NR[K] * 2
        closingArrayIndex == Find(text, ")", st.i + 1)
        arrayStr == Substr(text, st.i + 1, closingArrayIndex - st.i - 1)
        startArrayIndex == Find(arrayStr, "[", 0)
        closingIndex == Find(arrayStr, "]", startArrayIndex + 1)
        DATA_STR == Substr(arrayStr, startArrayIndex + 1, closingIndex - startArrayIndex - 1)
    IN  IF startArrayIndex = NPOS \/ closingIndex = NPOS
        THEN [st EXCEPT !.parseFailed = TRUE]
        ELSE CHOOSE out \in
          { IF EXPECTED_DBL_VALUES # Len(fltVec)
            THEN [st EXCEPT !.parseFailed = TRUE]
            ELSE LET frames == [f \in 1..FRAMES_PER_MOD_SNR_NR[K] |->
                                   Pkl_frame(fltVec, f - 1)]
                 IN  Pkl_after([st EXCEPT
                                  !.map = MapInsert(st.map, st.modSnrPair,
                                             SignalData(frames, Pkl_maxVal(0, frames, 1))),
                                  !.inModSnr = FALSE],
                               closingArrayIndex) :
            fltVec \in {Pkl_values(DATA_STR, 0, <<>>)} } : TRUE

\* The scan has been through position 0 with the same inModSnr twice: what
\* the scan does from a position depends on the text and inModSnr only, so
\* it goes on for ever.
Pkl_diverges(st) == st.restarts > 2

\* The scan over the text from the state st on.
RECURSIVE Pkl_scan(_, _)
Pkl_scan(st, text) ==
    CHOOSE out \in
      { IF x.parseFailed \/ x.i >= Len(text) \/ Pkl_diverges(x) THEN x
        ELSE IF text[x.i + 1] = "(" /\ ~x.inModSnr THEN Pkl_scan(Pkl_modSnr(x, text), text)
        ELSE IF text[x.i + 1] = "(" /\ x.inModSnr THEN Pkl_scan(Pkl_array(x, text), text)
        ELSE Pkl_scan([x EXCEPT !.i = x.i + 1], text) : x \in {st} } : TRUE

\* The text PklParser::parseDataset scans: LoadValFromFile gives the text of
\* the file, or the empty text when loading throws.
PKL_STR(p) == IF p.mFileName.loadOk THEN p.mFileName.text ELSE <<>>

\* Whether PklParser::parseDataset returns on the parser object p.
Pkl_returns(p) == ~Pkl_diverges(Pkl_scan(Pkl_start(PKL_STR(p)), PKL_STR(p)))

\* PklParser::parseDataset on the parser object p, when it returns.
Pkl_parseDataset(p) ==
    CHOOSE out \in
      { LET K == DATASET_SOURCE_RADIOML_2016_10A
            mods == removeDuplicatesMod(st.mods)
            snrs == removeDuplicatesSnr(st.snrs)
        IN  [p EXCEPT !.mUniqueModVec = mods, !.mUniqueSnrVec = snrs, !.mMap = st.map,
                      !.mStatus = ~(st.parseFailed \/ MODULATIONS_NR[K] # Len(mods)
                                    \/ SNRS_NR[K] # Len(snrs))] :
        st \in { Pkl_scan(Pkl_start(PKL_STR(p)), PKL_STR(p)) } } : TRUE

-----------------------------------------------------------------------------
(* Hdf5Parser (RadioML 2018.01): datasets X, Y and Z of one container       *)

\* Hdf5Parser::MODULATION_MAPPING, cut to the modulations of the dataset.
Hdf5_MODULATION_MAPPING ==
    SubSeq(<< "OOK", "4ASK", "8ASK", "BPSK", "QPSK", "8PSK", "16PSK", "32PSK",
              "16APSK", "32APSK", "64APSK", "128APSK", "16QAM", "32QAM", "64QAM",
              "128QAM", "256QAM", "AM_SSB_WC", "AM_SSB_SC", "AM_DSB_WC", "AM_DSB_SC",
              "FM", "GMSK", "OQPSK" >>,
           1, MODULATIONS_NR[DATASET_SOURCE_RADIOML_2018_01])

H5T_FLOAT == "H5T_FLOAT"
H5T_INTEGER == "H5T_INTEGER"

\* The element count of a dataset: the product of its dimensions.
RECURSIVE nrOfElements(_)
nrOfElements(aDimensionsVec) ==
    IF aDimensionsVec = <<>> THEN 1
    ELSE Head(aDimensionsVec) * nrOfElements(Tail(aDimensionsVec))

\* modOffset that finds every modulation at the start of the mapping.
First_modOffset(aModulation) == 0

\* The position of the single modulation in the mapping, from 0; 0 if absent.
modOffset(aModulation) ==
    LET hits == {n \in 1..Len(Hdf5_MODULATION_MAPPING) :
                    Hdf5_MODULATION_MAPPING[n] = aModulation}
    IN  IF hits = {} THEN 0 ELSE (CHOOSE n \in hits : \A m \in hits : n <= m) - 1

\* The locals of the element loop of Hdf5Parser::loadTreeItem at element i.
Hdf5_start(p, START_ELEMENT) ==
    [ i |-> START_ELEMENT, oldSnrDb |-> -100, modSnrPair |-> <<NAME_UNKNOWN, 0>>,
      frames |-> <<>>, maxVal |-> 0, frameData |-> <<>>,
      snrs |-> p.mUniqueSnrVec, map |-> p.mMap, status |-> TRUE ]

\* The SNR of the frame that starts at element i of the buffer.
Hdf5_crtSnrDb(i, NR_ELEMENTS_PER_MOD, NR_ELEMENTS_PER_MOD_SNR) ==
    -20 + 2 * ((i % NR_ELEMENTS_PER_MOD) \div NR_ELEMENTS_PER_MOD_SNR)

\* One pass of the element loop: the frame that starts at element st.i of the
\* buffer fltBuf (elements counted from 0).
Hdf5_frame(st, p, fltBuf, NR_ELEMENTS_PER_MOD, NR_ELEMENTS_PER_MOD_SNR) ==
    LET K == DATASET_SOURCE_RADIOML_2018_01
        NR_ELEMENTS_PER_FRAME == 2 * FRAME_LENGTH[K]
        crtSnrDb == Hdf5_crtSnrDb(st.i, NR_ELEMENTS_PER_MOD, NR_ELEMENTS_PER_MOD_SNR)
        newSnr == crtSnrDb # st.oldSnrDb
        s1 == IF newSnr
              THEN [st EXCEPT !.snrs = Append(st.snrs, crtSnrDb),
                              !.modSnrPair = <<p.mSingleModulation, crtSnrDb>>,
                              !.frames = <<>>, !.maxVal = 0]
              ELSE st
        read == [n \in 1..FRAME_LENGTH[K] |->
                    [i |-> fltBuf[st.i + 2 * (n - 1)], q |-> fltBuf[st.i + 2 * (n - 1) + 1]]]
        frameData == (IF st.i % NR_ELEMENTS_PER_FRAME = 0 THEN <<>> ELSE st.frameData) \o read
        s2 == [s1 EXCEPT !.maxVal = MaxAbsOver(s1.maxVal, read, 1), !.frameData = frameData]
        s3 == [s2 EXCEPT !.frames = Append(s2.frames, frameData)]
        last == st.i + NR_ELEMENTS_PER_FRAME - 2
        atLast == last # 0 /\ (last + 2) % NR_ELEMENTS_PER_MOD_SNR = 0
    IN  IF FRAME_LENGTH[K] # Len(frameData)
        THEN [s2 EXCEPT !.status = FALSE]
        ELSE IF atLast /\ FRAMES_PER_MOD_SNR_NR[K] # Len(s3.frames)
        THEN [s3 EXCEPT !.status = FALSE]
        ELSE [s3 EXCEPT
                !.map = IF atLast
                        THEN MapInsert(s3.map, s3.modSnrPair,
                                       SignalData(s3.frames, s3.maxVal))
                        ELSE s3.map,
                !.oldSnrDb = crtSnrDb,
                !.i = last + 2]

RECURSIVE Hdf5_elements(_, _, _, _, _, _)
Hdf5_elements(st, p, fltBuf, STOP_ELEMENT, NR_ELEMENTS_PER_MOD, NR_ELEMENTS_PER_MOD_SNR) ==
    CHOOSE out \in
      { IF ~x.status \/ x.i >= STOP_ELEMENT THEN x
        ELSE Hdf5_elements(
               Hdf5_frame(x, p, fltBuf, NR_ELEMENTS_PER_MOD, NR_ELEMENTS_PER_MOD_SNR),
               p, fltBuf, STOP_ELEMENT, NR_ELEMENTS_PER_MOD, NR_ELEMENTS_PER_MOD_SNR) :
        x \in {st} } : TRUE

\* Hdf5Parser::loadTreeItem for the tree item of a dataset of the file:
\* the call's status and the parser object after it.  mallocOk says whether
\* the buffer for the whole dataset could be allocated.  The buffer is
\* allocated for nrOfElements elements and H5Dread is given H5S_ALL as the
\* memory and the file selection: every element of the dataset is read.
\* free( fltBuf ) is the last statement of the block entered after a read
\* that succeeded; mDataBuffer keeps the address.
loadTreeItem(p, aTreeItem, mallocOk) ==
    LET K == DATASET_SOURCE_RADIOML_2018_01
        N == nrOfElements(aTreeItem.mDimensionsVec)
        allocated == [NothingLoaded EXCEPT !.allocated = N]
        H5S_ALL == [allocated EXCEPT !.first = 0, !.count = N]
        NR_ELEMENTS_PER_MOD == N \div MODULATIONS_NR[K]
        NR_ELEMENTS_PER_MOD_SNR == NR_ELEMENTS_PER_MOD \div SNRS_NR[K]
        START_ELEMENT == modOffset(p.mSingleModulation) * NR_ELEMENTS_PER_MOD
        STOP_ELEMENT == START_ELEMENT + NR_ELEMENTS_PER_MOD
        malloced == [p.buffer EXCEPT !.mallocs = @ + 1, !.mDataBuffer = TRUE]
        freed == [malloced EXCEPT !.frees = @ + 1]
        p1 == [p EXCEPT !.mUniqueModVec = Append(p.mUniqueModVec, p.mSingleModulation),
                        !.loaded = H5S_ALL, !.buffer = freed]
    IN  IF p.buffer.mDataBuffer \/ aTreeItem.mDatatypeClass # H5T_FLOAT \/ ~mallocOk
        THEN [status |-> FALSE, p |-> p]
        ELSE IF ~aTreeItem.readOk
        THEN [status |-> FALSE, p |-> [p EXCEPT !.loaded = allocated, !.buffer = malloced]]
        ELSE CHOOSE out \in
          { [ status |-> st.status,
              p |-> [p1 EXCEPT !.mUniqueSnrVec = st.snrs, !.mMap = st.map] ] :
            st \in { Hdf5_elements(Hdf5_start(p1, START_ELEMENT), p1, aTreeItem.data,
                                   STOP_ELEMENT, NR_ELEMENTS_PER_MOD,
                                   NR_ELEMENTS_PER_MOD_SNR) } } : TRUE

\* The locals of the loop over the root's children.
Hdf5_root(p) ==
    [ c |-> 1, p |-> p, parseFailed |-> FALSE, stop |-> FALSE,
      foundX |-> FALSE, foundY |-> FALSE, foundZ |-> FALSE ]

\* One child of the root: its name, rank and dimensions are checked, and the
\* dataset X is loaded.
Hdf5_child(st, crtChild, mallocOk) ==
    LET K == DATASET_SOURCE_RADIOML_2018_01
        ROWS_EXPECTED_NR == FRAMES_PER_MOD_SNR_NR[K] * MODULATIONS_NR[K] * SNRS_NR[K]
        dims == crtChild.mDimensionsVec
        next == [st EXCEPT !.c = st.c + 1]
        failed == [st EXCEPT !.parseFailed = TRUE, !.stop = TRUE]
    IN  CASE crtChild.mItemName = "X" ->
               IF dims # <<ROWS_EXPECTED_NR, FRAME_LENGTH[K], 2>> THEN failed
               ELSE CHOOSE out \in
                 { [next EXCEPT !.p = r.p, !.parseFailed = ~r.status,
                                !.foundX = r.status] :
                   r \in {loadTreeItem(st.p, crtChild, mallocOk)} } : TRUE
          [] crtChild.mItemName = "Y" ->
               IF dims # <<ROWS_EXPECTED_NR, MODULATIONS_NR[K]>> THEN failed
               ELSE [next EXCEPT !.foundY = TRUE]
          [] crtChild.mItemName = "Z" ->
               IF dims # <<ROWS_EXPECTED_NR, 1>> THEN failed
               ELSE [next EXCEPT !.foundZ = TRUE]
          [] OTHER -> next

RECURSIVE Hdf5_children(_, _, _)
Hdf5_children(st, children, mallocOk) ==
    CHOOSE out \in
      { IF x.stop \/ x.c > Len(children) THEN x
        ELSE Hdf5_children(Hdf5_child(x, children[x.c], mallocOk), children, mallocOk) :
        x \in {st} } : TRUE

\* Hdf5Parser::parseDatasetSingleModulation on the parser object p.  The walk
\* of the file builds a new tree with new dataset records; the tree of an
\* earlier parse is not deleted.
Hdf5_parseDatasetSingleModulation(p, mallocOk) ==
    LET K == DATASET_SOURCE_RADIOML_2018_01
        file == p.mFileName
        cleared == parseCleared(p)
    IN  IF p.mSingleModulation = NAME_UNKNOWN \/ ~file.visitOk \/ ~file.openOk
        THEN [cleared EXCEPT !.mStatus = FALSE]
        ELSE CHOOSE out \in
          { IF st.parseFailed \/ ~st.foundX \/ ~st.foundY \/ ~st.foundZ
            THEN [st.p EXCEPT !.mStatus = FALSE]
            ELSE [st.p EXCEPT
                    !.mUniqueSnrVec = removeDuplicatesSnr(st.p.mUniqueSnrVec),
                    !.mStatus = (SNRS_NR[K] = Len(removeDuplicatesSnr(st.p.mUniqueSnrVec)))] :
            st \in { Hdf5_children(Hdf5_root([cleared EXCEPT !.buffer = NoBuffer]),
                                    file.children, mallocOk) } } : TRUE

-----------------------------------------------------------------------------
(* Dataset files                                                            *)
(* A file is named by a record [kind, dev, at, zero]: the dataset kind it   *)
(* is written for, how it deviates from a well-formed file of that kind     *)
(* (dev, at the combination, line or group numbered at), and the set of     *)
(* (modulation, SNR) combinations, numbered from 0 in file order, whose     *)
(* samples are all zero.  FileContent gives what the parser of the kind     *)
(* reads from the file.                                                     *)

MaxZeroCombos == 1

CombosNr(K) == MODULATIONS_NR[K] * SNRS_NR[K]

DigitChar(n) == CHOOSE c \in Digits : DigitValue(c) = n

\* The decimal text of a whole number below 100 in magnitude.
Dec(n) == IF n < 10 THEN <<DigitChar(n)>> ELSE <<DigitChar(n \div 10), DigitChar(n % 10)>>

NumText(n) == IF n < 0 THEN <<"-">> \o Dec(-n) ELSE Dec(n)

\* The text "I+Qi" or "I-Qi" of a point.
PointText(point) ==
    NumText(point.i) \o (IF point.q < 0 THEN <<>> ELSE <<"+">>) \o NumText(point.q) \o <<"i">>

\* The sample written at a position of a combination: nonzero, of both signs.
SampleI(n, zero) == IF zero THEN 0 ELSE IF n % 2 = 0 THEN 1 ELSE -1
SampleQ(n, zero) == IF zero THEN 0 ELSE IF n % 2 = 0 THEN -2 ELSE 2

\* The text-tabular file: one frame per line, SNR by SNR, modulation by
\* modulation of the series.
CsvContent(file) ==
    LET K == DATASET_SOURCE_HISARMOD_2019_1
        F == FRAMES_PER_MOD_SNR_NR[K]
        total == CombosNr(K) * F
        count == CASE file.dev = "truncated" -> file.at
                   [] file.dev = "extra" -> total + F
                   [] OTHER -> total
        cellsOf(n) == CASE file.dev = "short" /\ n = file.at -> FRAME_LENGTH[K] - 1
                        [] file.dev = "long" /\ n = file.at -> FRAME_LENGTH[K] + 1
                        [] OTHER -> FRAME_LENGTH[K]
        cell(n, j) ==
            IF file.dev = "unsigned" /\ n = file.at /\ j = 1 THEN <<"7">>
            ELSE PointText([i |-> SampleI(j, (n \div F) \in file.zero),
                            q |-> SampleQ(j, (n \div F) \in file.zero)])
    IN  [ isOpen |-> file.dev # "unreadable",
          lines |-> [n \in 1..count |-> [j \in 1..cellsOf(n - 1) |-> cell(n - 1, j)]] ]

RECURSIVE JoinText(_, _)
\* The texts of a sequence with a separator text between them.
JoinText(texts, sep) ==
    IF texts = <<>> THEN <<>>
    ELSE IF Len(texts) = 1 THEN texts[1]
    ELSE texts[1] \o sep \o JoinText(Tail(texts), sep)

RECURSIVE FlattenText(_)
FlattenText(texts) == IF texts = <<>> THEN <<>> ELSE texts[1] \o FlattenText(Tail(texts))

\* The names the tuple file uses for the modulations of its dataset.
PklModulationStrings ==
    SubSeq(<< "8PSK", "AM-DSB", "AM-SSB", "BPSK", "CPFSK", "GFSK", "PAM4", "QAM16",
              "QAM64", "QPSK", "WBFM" >>,
           1, MODULATIONS_NR[DATASET_SOURCE_RADIOML_2016_10A])

\* The tuple file: per combination a key "('name', snr)" and an array of
\* the I parts then the Q parts of each frame.
PklContent(file) ==
    LET K == DATASET_SOURCE_RADIOML_2016_10A
        L == FRAME_LENGTH[K]
        S == SNRS_NR[K]
        values == L * FRAMES_PER_MOD_SNR_NR[K] * 2
        groups == IF file.dev = "truncated" THEN file.at ELSE CombosNr(K)
        here(c, dev) == file.dev = dev /\ c = file.at
        source(c) == IF here(c, "repeat") /\ c > 0 THEN c - 1 ELSE c
        name(c) == CASE here(c, "unknownMod") -> "XYZ"
                     [] here(c, "aliasMod") -> "PSK8"
                     [] OTHER -> PklModulationStrings[(source(c) \div S) + 1]
        snr(c) == -20 + 2 * (source(c) % S)
        key(c) ==
            <<"(">>
            \o (IF here(c, "noQuote") THEN <<>> ELSE <<"'">>)
            \o <<name(c)>>
            \o (IF here(c, "noQuote") \/ here(c, "oneQuote") THEN <<>> ELSE <<"'">>)
            \o (IF here(c, "noSeparator") THEN <<>> ELSE SEPARATOR_STR)
            \o NumText(snr(c)) \o <<")">>
        valuesOf(c) == CASE here(c, "fewer") -> values - 1
                         [] here(c, "more") -> values + 1
                         [] OTHER -> values
        value(c, v) == IF ((v - 1) % (2 * L)) < L
                       THEN SampleI(v, c \in file.zero)
                       ELSE SampleQ(v, c \in file.zero)
        array(c) ==
            IF here(c, "noArray") THEN <<>>
            ELSE <<"(">>
                 \o (IF here(c, "noOpen") THEN <<>> ELSE <<"[">>)
                 \o JoinText([v \in 1..valuesOf(c) |-> NumText(value(c, v))], SEPARATOR_STR)
                 \o (IF here(c, "noClose") THEN <<>> ELSE <<"]">>)
                 \o (IF here(c, "noParen") THEN <<>> ELSE <<")">>)
    IN  [ loadOk |-> file.dev # "unreadable",
          text |-> <<"{">>
                   \o FlattenText([c \in 1..groups |-> key(c - 1) \o <<":">> \o array(c - 1)])
                   \o <<"}">> ]

\* The hierarchical file: the datasets at its root, X with its elements.
Hdf5Content(file) ==
    LET K == DATASET_SOURCE_RADIOML_2018_01
        L == FRAME_LENGTH[K]
        F == FRAMES_PER_MOD_SNR_NR[K]
        R == F * CombosNr(K)
        xDims == CASE file.dev = "xRank" -> <<R, 2 * L>>
                   [] file.dev = "xRows" -> <<R + file.at, L, 2>>
                   [] file.dev = "xLength" -> <<R, L + 1, 2>>
                   [] file.dev = "xPairs" -> <<R, L, 3>>
                   [] OTHER -> <<R, L, 2>>
        yDims == CASE file.dev = "yRank" -> <<R>>
                   [] file.dev = "yCols" -> <<R, MODULATIONS_NR[K] + 1>>
                   [] OTHER -> <<R, MODULATIONS_NR[K]>>
        zDims == CASE file.dev = "zRows" -> <<R + 1, 1>>
                   [] file.dev = "zCols" -> <<R, 2>>
                   [] OTHER -> <<R, 1>>
        X == [ mItemName |-> "X", mDimensionsVec |-> xDims,
               mDatatypeClass |-> IF file.dev = "notFloat" THEN H5T_INTEGER ELSE H5T_FLOAT,
               readOk |-> file.dev # "readFails",
               data |-> [e \in 0..(nrOfElements(xDims) - 1) |->
                           IF e % 2 = 0
                           THEN SampleI((e % (2 * L)) \div 2, (e \div (2 * L * F)) \in file.zero)
                           ELSE SampleQ((e % (2 * L)) \div 2, (e \div (2 * L * F)) \in file.zero)] ]
        Y == [ mItemName |-> "Y", mDimensionsVec |-> yDims, mDatatypeClass |-> H5T_INTEGER,
               readOk |-> TRUE, data |-> <<>> ]
        Z == [ mItemName |-> "Z", mDimensionsVec |-> zDims, mDatatypeClass |-> H5T_INTEGER,
               readOk |-> TRUE, data |-> <<>> ]
    IN  [ visitOk |-> file.dev # "unreadable",
          openOk |-> file.dev # "cannotOpen",
          children |-> CASE file.dev = "noX" -> <<Y, Z>>
                         [] file.dev = "noY" -> <<X, Z>>
                         [] file.dev = "noZ" -> <<X, Y>>
                         [] OTHER -> <<X, Y, Z>> ]

FileContent(file) ==
    CASE file.kind = DATASET_SOURCE_RADIOML_2016_10A -> PklContent(file)
      [] file.kind = DATASET_SOURCE_RADIOML_2018_01 -> Hdf5Content(file)
      [] file.kind = DATASET_SOURCE_HISARMOD_2019_1 -> CsvContent(file)

\* Whether the parse routine of a dataset kind returns on the parser object p.
parseReturns(K, p) == K = DATASET_SOURCE_RADIOML_2016_10A => Pkl_returns(p)

\* The parse routine the worker of a dataset kind runs on its parser object:
\* the parser object when the routine returns.
parse(K, p, mallocOk) ==
    CASE K = DATASET_SOURCE_RADIOML_2016_10A -> Pkl_parseDataset(p)
      [] K = DATASET_SOURCE_RADIOML_2018_01 -> Hdf5_parseDatasetSingleModulation(p, mallocOk)
      [] K = DATASET_SOURCE_HISARMOD_2019_1 -> Csv_parseDataset(p)

-----------------------------------------------------------------------------
(* Environments of the transceiver variants                                *)

\* How many steps of one initialize the transport refuses.
MaxFaults == 1

\* How many calls one run of SpecTrx makes.
MaxCalls == 3

RECURSIVE FaultSets(_, _)
FaultSets(S, n) ==
    IF n = 0 THEN {{}}
    ELSE LET prev == FaultSets(S, n - 1)
         IN  prev \cup {m \cup {x} : m \in prev, x \in S}

\* Token vectors of the "*_available" attributes: the well-formed range the
\* hardware delivers, and one that initialize cannot accept.
GoodAttr(dev, name) ==
    CASE dev = TX_DEVICE_AD9361 /\ name = "bw" -> <<200000, 1, 40000000>>
      [] dev = TX_DEVICE_AD9361 /\ name = "fs" -> <<2083333, 1, 61440000>>
      [] dev = TX_DEVICE_AD9361 /\ name = "lo" -> <<46875, 1, 6000000>>
      [] dev = TX_DEVICE_AD9361 /\ name = "gain" -> <<-8975>>
      [] dev = TX_DEVICE_AD9081 /\ name = "lo" -> <<-6000000, 1, 6000000>>
      [] OTHER -> <<>>

BadAttr(dev, name) ==
    CASE name = "bw" -> <<200000, 40000000>>
      [] name = "fs" -> <<3000000, 1, 61440000>>
      [] name = "lo" -> <<70000, 1, 70000>>
      [] name = "gain" -> <<-8975, 25, 0>>

\* The attributes initialize reads on each variant.
AttrsRead(dev) ==
    CASE dev = TX_DEVICE_AD9361 -> {"bw", "fs", "lo", "gain"}
      [] dev = TX_DEVICE_AD9081 -> {"lo"}
      [] OTHER -> {}

Attr(dev, name, bad) == IF bad = name THEN BadAttr(dev, name) ELSE GoodAttr(dev, name)

\* An environment of one initialize: the steps refused and the attribute, if
\* any, that is not well formed.
Envs(dev) ==
    { [ missing |-> m, bad |-> b,
        bwAttr |-> Attr(dev, "bw", b), fsAttr |-> Attr(dev, "fs", b),
        loAttr |-> Attr(dev, "lo", b), gainAttr |-> Attr(dev, "gain", b) ] :
      m \in FaultSets(Steps(dev), MaxFaults), b \in AttrsRead(dev) \cup {"none"} }

NoEnv ==
    [ missing |-> {}, bad |-> "none", bwAttr |-> <<>>, fsAttr |-> <<>>,
      loAttr |-> <<>>, gainAttr |-> <<>> ]

\* Setter arguments on both sides of every range limit.
Args(param) ==
    CASE param = "lo" -> {69999, 70000, 6000000, 6000001}
      [] param = "fs" -> {2083332, 2083333, 61440000, 61440001, Adrv9009SamplingFrequency}
      [] param = "bw" -> {199999, 200000, 40000000, 40000001, Adrv9009Bandwidth}
      [] param = "gain" -> {-8976, -8975, -3001, -3000, 0, 1}
      [] param = "nco" -> {-1, 0, 50, NcoGainScaleMax, NcoGainScaleMax + 1}

\* The range a setter validates against, as the object holds it.
RangeOf(t, param) ==
    CASE param = "lo" -> t.mTxLoFrequencyParams
      [] param = "fs" -> t.mTxSamplingFrequencyParams
      [] param = "bw" -> t.mTxBandwidthParams
      [] param = "gain" -> t.mTxHwGainDbParams
      [] param = "nco" -> [min |-> 0, step |-> 0, max |-> NcoGainScaleMax]

NoCall ==
    [ op |-> "none", param |-> "", arg |-> 0, wrOk |-> FALSE, ret |-> FALSE,
      wrote |-> FALSE, before |-> 0, after |-> 0, range |-> ZeroRange,
      env |-> NoEnv, nullEnable |-> FALSE ]

-----------------------------------------------------------------------------
(* Streaming: the cyclic buffer of a variant                                *)
(* t.buffer is the object mTxBuf points to: slots holds the pairs written   *)
(* since the buffer was created, in slot order, and pushes counts the calls *)
(* of iio_buffer_push.  Samples are whole numbers; the products of the      *)
(* conversion are exact.                                                     *)

Pow2(n) == 2 ^ n

\* static_cast<int16_t> of the quotient num / den, den > 0: the fraction is
\* discarded.
Trunc(num, den) == IF num >= 0 THEN num \div den ELSE -((-num) \div den)

\* A store into an int16_t.
Int16(v) == ((v + 32768) % 65536) - 32768

\* The numerator of SCALE_RATIO of each variant.
SCALE_FULL(dev) ==
    CASE dev = TX_DEVICE_AD9361 -> 2047
      [] dev = TX_DEVICE_ADRV9009 -> 8191
      [] dev = TX_DEVICE_AD9081 -> 32767

\* The left shift each variant applies to the cast sample.
SHIFT(dev) ==
    CASE dev = TX_DEVICE_AD9361 -> 4
      [] dev = TX_DEVICE_ADRV9009 -> 2
      [] dev = TX_DEVICE_AD9081 -> 0

\* A variant that shifts one bit less.
ShortShift_convert(dev, x, maxVal, nanCast) ==
    LET cast == IF maxVal = 0 THEN nanCast ELSE Trunc(x * SCALE_FULL(dev), maxVal)
    IN  Int16(cast * Pow2(IF SHIFT(dev) > 0 THEN SHIFT(dev) + 1 ELSE 0))

\* One component of a slot: static_cast<int16_t>( x * SCALE_RATIO ) << shift.
\* With maxVal 0 the ratio is not finite and the cast is undefined: nanCast
\* is what it yields.
convert(dev, x, maxVal, nanCast) ==
    LET cast == IF maxVal = 0 THEN nanCast ELSE Trunc(x * SCALE_FULL(dev), maxVal)
    IN  Int16(cast * Pow2(SHIFT(dev)))

\* AdiTrx::getSignalData. frameDataVec.at( 0 ) throws on data without frames.
getSignalData(t, aSignalData) ==
    IF aSignalData.frameDataVec = <<>>
    THEN [ t |-> [t EXCEPT !.mSignalData = aSignalData, !.mFramesNr = 0],
           throws |-> TRUE ]
    ELSE [ t |-> [t EXCEPT !.mSignalData = aSignalData,
                           !.mFramesNr = Len(aSignalData.frameDataVec),
                           !.mFrameLength = Len(aSignalData.frameDataVec[1])],
           throws |-> FALSE ]

\* The frame and the point slot i (from 0) is filled from.
crtFrame(t, i) == i \div t.mFrameLength

crtPoint(t, i) == IF crtFrame(t, i) # 0 THEN i % t.mFrameLength ELSE i

\* A start that pushes the buffer twice.
PushTwice_startTxStreaming(dev, t, createOk, nanCast) ==
    LET r == resetTxBuffer(t, t.mFrameLength * t.mFramesNr, createOk)
        frames == t.mSignalData.frameDataVec
        ragged == \E f \in 1..Len(frames) : Len(frames[f]) < t.mFrameLength
        slot(i) ==
            LET pt == frames[crtFrame(t, i) + 1][crtPoint(t, i) + 1]
            IN  <<convert(dev, pt.i, t.mSignalData.maxVal, nanCast),
                  convert(dev, pt.q, t.mSignalData.maxVal, nanCast)>>
    IN  IF ~r.ret
        THEN [t |-> r.t, ret |-> FALSE, nullBuffer |-> FALSE, throws |-> FALSE]
        ELSE IF ~r.t.mTxBuf
        THEN [t |-> r.t, ret |-> TRUE, nullBuffer |-> TRUE, throws |-> FALSE]
        ELSE IF ragged
        THEN [t |-> r.t, ret |-> FALSE, nullBuffer |-> FALSE, throws |-> TRUE]
        ELSE [ t |-> [r.t EXCEPT !.buffer =
                        [ slots |-> [k \in 1..r.t.mTxBufIqPairsCount |-> slot(k - 1)],
                          pushes |-> 2 ]],
               ret |-> TRUE, nullBuffer |-> FALSE, throws |-> FALSE ]

\* startTxStreaming of the variant dev: a cyclic buffer of mFrameLength *
\* mFramesNr pairs is created, filled slot by slot and pushed.  nullBuffer
\* tells that the buffer length is 0, so that the slots of a null buffer are
\* walked; throws tells that a frame is shorter than the first one, so that
\* at() throws before the push.
startTxStreaming(dev, t, createOk, nanCast) ==
    LET r == resetTxBuffer(t, t.mFrameLength * t.mFramesNr, createOk)
        frames == t.mSignalData.frameDataVec
        ragged == \E f \in 1..Len(frames) : Len(frames[f]) < t.mFrameLength
        slot(i) ==
            LET pt == frames[crtFrame(t, i) + 1][crtPoint(t, i) + 1]
            IN  <<convert(dev, pt.i, t.mSignalData.maxVal, nanCast),
                  convert(dev, pt.q, t.mSignalData.maxVal, nanCast)>>
    IN  IF ~r.ret
        THEN [t |-> r.t, ret |-> FALSE, nullBuffer |-> FALSE, throws |-> FALSE]
        ELSE IF ~r.t.mTxBuf
        THEN [t |-> r.t, ret |-> TRUE, nullBuffer |-> TRUE, throws |-> FALSE]
        ELSE IF ragged
        THEN [t |-> r.t, ret |-> FALSE, nullBuffer |-> FALSE, throws |-> TRUE]
        ELSE [ t |-> [r.t EXCEPT !.buffer =
                        [ slots |-> [k \in 1..r.t.mTxBufIqPairsCount |-> slot(k - 1)],
                          pushes |-> 1 ]],
               ret |-> TRUE, nullBuffer |-> FALSE, throws |-> FALSE ]

\* The length of the buffer stopTxStreaming creates.
STOP_LENGTH == 1024

\* A stop that pushes the buffer as it was created.
Unfilled_stopTxStreaming(t, createOk) ==
    LET r == resetTxBuffer(t, STOP_LENGTH, createOk)
    IN  IF ~r.ret THEN r
        ELSE [t |-> [r.t EXCEPT !.buffer = [slots |-> <<>>, pushes |-> 1]], ret |-> TRUE]

\* stopTxStreaming: a cyclic buffer of 1024 pairs of zeros is created and
\* pushed.
stopTxStreaming(t, createOk) ==
    LET r == resetTxBuffer(t, STOP_LENGTH, createOk)
    IN  IF ~r.ret THEN r
        ELSE [ t |-> [r.t EXCEPT !.buffer =
                        [ slots |-> [k \in 1..r.t.mTxBufIqPairsCount |-> <<0, 0>>],
                          pushes |-> 1 ]],
               ret |-> TRUE ]

-----------------------------------------------------------------------------
(* TxHal: the scan contexts and the active variant                         *)

\* TxHal::TxHal.  A scan context is written as the device its description
\* names, TX_DEVICE_UNKNOWN for a description that names none.  mSignalMaxVal
\* and mStreaming stand for the signal data and the streaming thread of the
\* active variant.
TxHal ==
    [ mTxDevice |-> TX_DEVICE_UNKNOWN, mIsInitialized |-> FALSE,
      mIioScanContextsVec |-> <<>>, mSignalMaxVal |-> 0, mStreaming |-> FALSE ]

\* A HAL that does not release the active variant.
NoTeardown_initializeTxDevice(h, t3, aIndex, env) ==
    LET found == /\ aIndex >= 0
                 /\ aIndex < Len(h.mIioScanContextsVec)
                 /\ h.mIioScanContextsVec[aIndex + 1] \in Variants
        dev == IF found THEN h.mIioScanContextsVec[aIndex + 1] ELSE TX_DEVICE_UNKNOWN
    IN  IF ~found
        THEN [ hal |-> [h EXCEPT !.mTxDevice = TX_DEVICE_UNKNOWN, !.mIsInitialized = FALSE],
               trx |-> t3, nullEnable |-> FALSE, atOpen |-> t3 ]
        ELSE CHOOSE out \in
          { [ hal |-> [h EXCEPT !.mTxDevice = dev, !.mIsInitialized = r.ret],
              trx |-> [t3 EXCEPT ![dev] = r.t], nullEnable |-> r.nullEnable,
              atOpen |-> t3 ] :
            r \in {initialize(dev, t3[dev], env)} } : TRUE

\* TxHal::initializeTxDevice on the HAL h and the variant objects t3: the
\* active variant is released, the context at aIndex selects the variant and
\* the variant is initialized in the environment env.
initializeTxDevice(h, t3, aIndex, env) ==
    LET t1 == IF h.mIsInitialized /\ h.mTxDevice \in Variants
              THEN [t3 EXCEPT ![h.mTxDevice] = freeResources(t3[h.mTxDevice])]
              ELSE t3
        found == /\ aIndex >= 0
                 /\ aIndex < Len(h.mIioScanContextsVec)
                 /\ h.mIioScanContextsVec[aIndex + 1] \in Variants
        dev == IF found THEN h.mIioScanContextsVec[aIndex + 1] ELSE TX_DEVICE_UNKNOWN
    IN  IF ~found
        THEN [ hal |-> [h EXCEPT !.mTxDevice = TX_DEVICE_UNKNOWN, !.mIsInitialized = FALSE],
               trx |-> t1, nullEnable |-> FALSE, atOpen |-> t1 ]
        ELSE CHOOSE out \in
          { [ hal |-> [h EXCEPT !.mTxDevice = dev, !.mIsInitialized = r.ret],
              trx |-> [t1 EXCEPT ![dev] = r.t], nullEnable |-> r.nullEnable,
              atOpen |-> t1 ] :
            r \in {initialize(dev, t1[dev], env)} } : TRUE

MIN_FREQ_HZ == 2500000

\* A policy that also writes the sampling frequency of variant B.
AlsoB_updateSamplingFrequency(h, t3, aDatasetSource, wrOk) ==
    LET toMinRatio == SOURCE_FRAME_LENGTH[aDatasetSource] \div 128
        arg == MIN_FREQ_HZ * toMinRatio
    IN  IF h.mTxDevice \in {TX_DEVICE_AD9361, TX_DEVICE_ADRV9009}
        THEN [ trx |-> [t3 EXCEPT ![h.mTxDevice].mTxSamplingFrequency = arg],
               called |-> TRUE, arg |-> arg, wrote |-> TRUE ]
        ELSE [trx |-> t3, called |-> FALSE, arg |-> 0, wrote |-> FALSE]

\* TxHal::updateSamplingFrequency after a parse of the dataset aDatasetSource:
\* only variant A is written, with 2.5 MHz times the ratio of the frame
\* length to the shortest frame length.  called tells that a setter was
\* called, arg with which frequency, wrote that the setter issued the
\* attribute write.
updateSamplingFrequency(h, t3, aDatasetSource, wrOk) ==
    LET minFrameLength ==
            CHOOSE m \in {SOURCE_FRAME_LENGTH[k] : k \in DatasetSources} :
                \A k \in DatasetSources : m <= SOURCE_FRAME_LENGTH[k]
        toMinRatio == SOURCE_FRAME_LENGTH[aDatasetSource] \div minFrameLength
        r == Ad9361_setTxSamplingFrequency(t3[TX_DEVICE_AD9361],
                                           MIN_FREQ_HZ * toMinRatio, wrOk)
    IN  IF minFrameLength # 0 /\ h.mTxDevice = TX_DEVICE_AD9361
        THEN [ trx |-> [t3 EXCEPT ![TX_DEVICE_AD9361] = r.t],
               called |-> TRUE, arg |-> MIN_FREQ_HZ * toMinRatio, wrote |-> r.wrote ]
        ELSE [trx |-> t3, called |-> FALSE, arg |-> 0, wrote |-> FALSE]

\* The getter of the parameter param of the variant dev: an attribute read
\* clears the cached value, stores the value read when the read succeeds and
\* hands the cached value out; a parameter the variant does not have yields 0
\* with a fixed status.
getTx(dev, param, t, readOk, value) ==
    LET reads == CASE dev = TX_DEVICE_AD9361 -> {"bw", "gain", "lo", "fs"}
                   [] dev = TX_DEVICE_ADRV9009 -> {"bw", "gain", "lo", "fs"}
                   [] dev = TX_DEVICE_AD9081 -> {"lo", "nco", "fs"}
        fixed == dev = TX_DEVICE_AD9081 /\ param \in {"bw", "gain"}
        cached == IF readOk THEN value ELSE 0
    IN  IF param \in reads
        THEN [t |-> [t EXCEPT ![CacheField(param)] = cached], ret |-> readOk, out |-> cached]
        ELSE [t |-> t, ret |-> fixed, out |-> 0]

\* A HAL whose getters answer true without a variant.
TrueByDefault_TxHal_getTx(h, t3, param, readOk, value) ==
    IF h.mTxDevice \in Variants
    THEN LET r == getTx(h.mTxDevice, param, t3[h.mTxDevice], readOk, value)
         IN  [trx |-> [t3 EXCEPT ![h.mTxDevice] = r.t], ret |-> r.ret]
    ELSE [trx |-> t3, ret |-> TRUE]

\* TxHal::getTxBandwidth, getTxHwGain, getTxLoFrequency, getTxNcoGainScale and
\* getTxSamplingFrequency: the getter of the active variant, false without one.
TxHal_getTx(h, t3, param, readOk, value) ==
    IF h.mTxDevice \in Variants
    THEN LET r == getTx(h.mTxDevice, param, t3[h.mTxDevice], readOk, value)
         IN  [trx |-> [t3 EXCEPT ![h.mTxDevice] = r.t], ret |-> r.ret]
    ELSE [trx |-> t3, ret |-> FALSE]

\* The parameters TxHal has a setter for.
HalSetters == {"lo", "nco", "fs"}

\* TxHal::setTxLoFrequency, setTxNcoGainScale and setTxSamplingFrequency.
TxHal_setTx(h, t3, param, arg, wrOk) ==
    IF h.mTxDevice \in Variants
    THEN LET r == setTx(h.mTxDevice, param, t3[h.mTxDevice], arg, wrOk)
         IN  [trx |-> [t3 EXCEPT ![h.mTxDevice] = r.t], ret |-> r.ret]
    ELSE [trx |-> t3, ret |-> FALSE]

\* TxHal::getTxLoFrequencyRange.
getTxLoFrequencyRange(h, t3) ==
    IF h.mTxDevice \in Variants THEN t3[h.mTxDevice].mTxLoFrequencyParams ELSE ZeroRange

\* TxHal::getData.
getData(h, t3, aSignalData) ==
    IF h.mTxDevice \in Variants
    THEN LET r == getSignalData(t3[h.mTxDevice], aSignalData)
         IN  [trx |-> [t3 EXCEPT ![h.mTxDevice] = r.t], throws |-> r.throws]
    ELSE [trx |-> t3, throws |-> FALSE]

\* TxHal::startStreaming.
startStreaming(h, t3, createOk, nanCast) ==
    IF h.mTxDevice \in Variants
    THEN LET r == startTxStreaming(h.mTxDevice, t3[h.mTxDevice], createOk, nanCast)
         IN  [ trx |-> [t3 EXCEPT ![h.mTxDevice] = r.t], ret |-> r.ret,
               nullBuffer |-> r.nullBuffer, throws |-> r.throws ]
    ELSE [trx |-> t3, ret |-> FALSE, nullBuffer |-> FALSE, throws |-> FALSE]

\* TxHal::stopStreaming.
stopStreaming(h, t3, createOk) ==
    IF h.mTxDevice \in Variants
    THEN LET r == stopTxStreaming(t3[h.mTxDevice], createOk)
         IN  [trx |-> [t3 EXCEPT ![h.mTxDevice] = r.t], ret |-> r.ret]
    ELSE [trx |-> t3, ret |-> FALSE]

-----------------------------------------------------------------------------
(* RadioModTx: the presenter                                                *)

\* The widgets the presenter enables and disables.
Widgets ==
    { "DatasetGroupBox", "ModulationGroupBox", "FramesGroupBox", "StartFramesButton",
      "StopFramesButton", "FramesTxComboBox", "FloSpinBox" }

\* The group box a control lies in, as the widget names say: the dataset
\* buttons in DatasetGroupBox, the modulation and SNR lists in
\* ModulationGroupBox, the transmit controls in FramesGroupBox.
ParentOf(w) ==
    CASE w \in {"DatasetRadioButton", "OpenDatasetButton"} -> "DatasetGroupBox"
      [] w \in {"ModulationNameComboBox", "ModulationSnrComboBox"} -> "ModulationGroupBox"
      [] w \in {"StartFramesButton", "StopFramesButton", "FramesTxComboBox", "FloSpinBox"}
            -> "FramesGroupBox"
      [] OTHER -> "none"

\* QWidget::isEnabled: a widget takes input when it and the group box it
\* lies in are enabled.  A widget the presenter never disables is enabled.
isEnabled(u, w) ==
    /\ (w \in Widgets => u.enabled[w])
    /\ (ParentOf(w) # "none" => u.enabled[ParentOf(w)])

setEnabled(u, w, b) == [u EXCEPT !.enabled[w] = b]

\* QComboBox::itemData( 0 ).value<int>(): the first item's data, 0 for an
\* empty list.
FirstModulation(items) == IF items = <<>> THEN ModulationNames[1] ELSE items[1]

FirstSnr(items) == IF items = <<>> THEN 0 ELSE items[1]

\* The Dataset Store the presenter holds.
Store(u) == <<u.mMap, u.mUniqueModVec, u.mUniqueSnrVec>>

\* RadioModTx::updateTxControls.  The values the controls display are not
\* part of the state.
updateTxControls(u, h) ==
    [u EXCEPT !.enabled["FloSpinBox"] = h.mIsInitialized,
              !.enabled["StartFramesButton"] = u.mParserStatus /\ h.mIsInitialized,
              !.enabled["StopFramesButton"] = FALSE]

\* RadioModTx::updateControlsParseFinished.
updateControlsParseFinished(u) ==
    [u EXCEPT !.enabled["DatasetGroupBox"] = TRUE,
              !.enabled["ModulationGroupBox"] = TRUE,
              !.enabled["FramesGroupBox"] = TRUE]

\* updateControlsParseStarted that leaves the transmit controls enabled.
FramesLeftEnabled_updateControlsParseStarted(u) ==
    [u EXCEPT !.mParserStatus = FALSE,
              !.enabled["DatasetGroupBox"] = FALSE,
              !.enabled["ModulationGroupBox"] = FALSE,
              !.ModulationNameComboBox = <<>>,
              !.ModulationSnrComboBox = <<>>]

\* updateControlsParseStarted that leaves the dataset controls enabled.
DatasetLeftEnabled_updateControlsParseStarted(u) ==
    [u EXCEPT !.mParserStatus = FALSE,
              !.enabled["ModulationGroupBox"] = FALSE,
              !.enabled["FramesGroupBox"] = FALSE,
              !.ModulationNameComboBox = <<>>,
              !.ModulationSnrComboBox = <<>>]

\* RadioModTx::updateControlsParseStarted.
updateControlsParseStarted(u) ==
    [u EXCEPT !.mParserStatus = FALSE,
              !.enabled["DatasetGroupBox"] = FALSE,
              !.enabled["ModulationGroupBox"] = FALSE,
              !.enabled["FramesGroupBox"] = FALSE,
              !.ModulationNameComboBox = <<>>,
              !.ModulationSnrComboBox = <<>>]

\* RadioModTx::updateDatasetSrc( aIndex ).
updateDatasetSrc(u, aIndex) ==
    LET u1 == IF aIndex = DATASET_SOURCE_RADIOML_2018_01
              THEN [u EXCEPT !.ModulationNameComboBox = Hdf5_MODULATION_MAPPING,
                             !.mUniqueModVec = Hdf5_MODULATION_MAPPING,
                             !.mCrtModulation = FirstModulation(Hdf5_MODULATION_MAPPING),
                             !.ModulationSnrComboBox = <<>>]
              ELSE [u EXCEPT !.ModulationNameComboBox = <<>>,
                             !.mUniqueModVec = <<>>,
                             !.mCrtModulation = NAME_UNKNOWN,
                             !.ModulationSnrComboBox = <<>>]
    IN  [u1 EXCEPT !.mParserStatus = FALSE, !.mSource = aIndex,
                   !.enabled["StartFramesButton"] = FALSE,
                   !.enabled["StopFramesButton"] = FALSE]

\* RadioModTx::updateModulationControls.
updateModulationControls(u) ==
    LET items == u.ModulationNameComboBox \o u.mUniqueModVec
    IN  [u EXCEPT !.ModulationNameComboBox = items,
                  !.mCrtModulation =
                      IF u.mDatasetType # DATASET_SOURCE_RADIOML_2018_01
                      THEN FirstModulation(items) ELSE u.mCrtModulation]

\* RadioModTx::updateSnrControls.
updateSnrControls(u) ==
    LET items == u.ModulationSnrComboBox \o u.mUniqueSnrVec
    IN  [u EXCEPT !.ModulationSnrComboBox = items, !.mCrtSnrDb = FirstSnr(items)]

\* What handleDatasetParseFinished copies from the parser object p: its map
\* and status (DatasetParser::getMap) and its distinct vectors; for the
\* hierarchical dataset the modulations are those of the mapping.
publish(u, p) ==
    [u EXCEPT !.mMap = p.mMap,
              !.mParserStatus = p.mStatus,
              !.mUniqueModVec = IF u.mDatasetType = DATASET_SOURCE_RADIOML_2018_01
                                THEN Hdf5_MODULATION_MAPPING ELSE p.mUniqueModVec,
              !.mUniqueSnrVec = p.mUniqueSnrVec]

\* RadioModTx::handleDatasetParseFinished with the parser objects P: the
\* presenter and the variant objects after it.
handleDatasetParseFinished(u, h, t3, P, wrOk) ==
    CHOOSE out \in
      { [ ui |-> updateTxControls(
                    IF u2.mParserStatus
                    THEN updateSnrControls(updateModulationControls(u2))
                    ELSE u2, h),
          fs |-> IF u2.mParserStatus /\ h.mIsInitialized
                 THEN updateSamplingFrequency(h, t3, u2.mDatasetType, wrOk)
                 ELSE [trx |-> t3, called |-> FALSE, arg |-> 0, wrote |-> FALSE] ] :
        u2 \in {publish(updateControlsParseFinished(u), P[u.mDatasetType])} } : TRUE

\* RadioModTx::handleModulationNameChanged( aIndex ), aIndex from 0.
handleModulationNameChanged(u, aIndex) ==
    LET u1 == [u EXCEPT !.mCrtModulation = u.ModulationNameComboBox[aIndex + 1]]
    IN  IF u.mDatasetType = DATASET_SOURCE_RADIOML_2018_01
        THEN [u1 EXCEPT !.enabled["StartFramesButton"] = FALSE,
                        !.enabled["StopFramesButton"] = FALSE]
        ELSE u1

\* RadioModTx::handleModulationSnrChanged( aIndex ), aIndex from 0.
handleModulationSnrChanged(u, aIndex) ==
    [u EXCEPT !.mCrtSnrDb = u.ModulationSnrComboBox[aIndex + 1]]

\* The controls after RadioModTx::handleStartTxStreaming on an initialized HAL.
startControls(u) ==
    [u EXCEPT !.enabled["StartFramesButton"] = FALSE,
              !.enabled["StopFramesButton"] = TRUE,
              !.enabled["DatasetGroupBox"] = FALSE,
              !.enabled["ModulationGroupBox"] = FALSE,
              !.enabled["FramesTxComboBox"] = FALSE]

\* The controls after RadioModTx::handleStopTxStreaming on an initialized HAL.
stopControls(u) ==
    [u EXCEPT !.enabled["StartFramesButton"] = TRUE,
              !.enabled["StopFramesButton"] = FALSE,
              !.enabled["DatasetGroupBox"] = TRUE,
              !.enabled["ModulationGroupBox"] = TRUE,
              !.enabled["FramesTxComboBox"] = TRUE]

\* RadioModTx::RadioModTx on the HAL h that updateTxList found.  The members
\* mCrtModulation and mCrtSnrDb are not initialized: they hold what the
\* memory held.
RadioModTx(h, crtModulation, crtSnrDb) ==
    updateTxControls(
      [ mDatasetType |-> DATASET_SOURCE_RADIOML_2016_10A,
        mSource |-> DATASET_SOURCE_RADIOML_2016_10A,
        mParserStatus |-> FALSE,
        mTxIioScanIndex |-> IF h.mIioScanContextsVec = <<>> THEN -1 ELSE 0,
        mMap |-> EmptyMap, mUniqueModVec |-> <<>>, mUniqueSnrVec |-> <<>>,
        mCrtModulation |-> crtModulation, mCrtSnrDb |-> crtSnrDb,
        ModulationNameComboBox |-> <<>>, ModulationSnrComboBox |-> <<>>,
        enabled |-> [w \in Widgets |-> w \notin {"StartFramesButton", "StopFramesButton"}] ],
      h)

-----------------------------------------------------------------------------
(* Worker threads and the event queue of the main thread                    *)
(* A parser object lives in the thread of its kind.  thread[K] is "idle"    *)
(* (not running), "started" (running, the started() signal is about to call *)
(* the parse slot), "parsing" (the slot is executing), "looping" (the slot  *)
(* has returned and the thread's event loop runs) or "exiting" (quit() was  *)
(* called and the thread has not finished yet).  parseFinished() is         *)
(* connected to handleDatasetParseFinished of the presenter and to quit of  *)
(* the thread object, in this order; both receivers live in the main        *)
(* thread, so both calls are posted to its event queue.                     *)

ParseFinishedEvents(K) ==
    << [slot |-> "handleDatasetParseFinished", kind |-> K],
       [slot |-> "quit", kind |-> K] >>

\* QThread::start(): the states the thread can be in after the call.  A
\* running thread is left alone; a thread that is finishing is waited for
\* and started, but between quit() and the end of run() it still counts as
\* running.
start(state) ==
    CASE state = "idle" -> {"started"}
      [] state = "exiting" -> {"exiting", "started"}
      [] OTHER -> {state}

\* Whether malloc of the buffer for dataset X can fail: only the
\* hierarchical parser allocates it.
MallocOutcomes(K) == IF K = DATASET_SOURCE_RADIOML_2018_01 THEN BOOLEAN ELSE {TRUE}

-----------------------------------------------------------------------------
(* Environments of the presenter specifications                             *)

\* How many times one run opens a file or selects a transmitter.
MaxOpens == 2

\* What one scan for contexts can find.
ScanLists ==
    { <<>>, <<TX_DEVICE_AD9361>>, <<TX_DEVICE_UNKNOWN, TX_DEVICE_AD9081>>,
      <<TX_DEVICE_ADRV9009, TX_DEVICE_AD9361>> }

\* The device the context at aIndex (from 0) names.
ContextDevice(scan, aIndex) ==
    IF aIndex >= 0 /\ aIndex < Len(scan) THEN scan[aIndex + 1] ELSE TX_DEVICE_UNKNOWN

\* The environments of an initialize the presenter starts: the device
\* answers, or its context cannot be created.
HalEnvs(dev) ==
    IF dev \in Variants
    THEN {e \in Envs(dev) : e.bad = "none" /\ e.missing \subseteq {"ctx"}}
    ELSE {NoEnv}

\* What the uninitialized members can hold.
IndeterminateModulations == {NAME_UNKNOWN, "OOK"}

IndeterminateSnrs == {0, -20}

File(kind, dev, at, zero) == [kind |-> kind, dev |-> dev, at |-> at, zero |-> zero]

ZeroSets(K) == FaultSets(0..(CombosNr(K) - 1), MaxZeroCombos)

\* The deviations of a tuple file, of a hierarchical file and of a
\* text-tabular file.
PklDeviations ==
    LET K == DATASET_SOURCE_RADIOML_2016_10A
    IN  {<<"none", 0>>, <<"unreadable", 0>>}
        \cup {<<"truncated", n>> : n \in 0..(CombosNr(K) - 1)}
        \cup { <<d, c>> :
               d \in { "repeat", "unknownMod", "aliasMod", "noQuote", "oneQuote",
                       "noSeparator", "fewer", "more", "noArray", "noOpen", "noClose",
                       "noParen" },
               c \in 0..(CombosNr(K) - 1) }

Hdf5Deviations ==
    { <<d, 0>> :
      d \in { "none", "unreadable", "cannotOpen", "xRank", "xLength", "xPairs", "yRank",
              "yCols", "zRows", "zCols", "notFloat", "readFails", "noX", "noY", "noZ" } }
    \cup {<<"xRows", -1>>, <<"xRows", 1>>}

CsvDeviations ==
    LET K == DATASET_SOURCE_HISARMOD_2019_1
        lines == 0..(CombosNr(K) * FRAMES_PER_MOD_SNR_NR[K] - 1)
    IN  {<<"none", 0>>, <<"unreadable", 0>>, <<"extra", 0>>}
        \cup {<<d, n>> : d \in {"truncated", "short", "long", "unsigned"}, n \in lines}

Deviations(K) ==
    CASE K = DATASET_SOURCE_RADIOML_2016_10A -> PklDeviations
      [] K = DATASET_SOURCE_RADIOML_2018_01 -> Hdf5Deviations
      [] K = DATASET_SOURCE_HISARMOD_2019_1 -> CsvDeviations

\* Every file of the three families.
AllFiles ==
    UNION { {File(K, d[1], d[2], z) : d \in Deviations(K), z \in ZeroSets(K)} :
            K \in DatasetSources }

\* A few files of each kind: well formed, rejected with part of the data
\* read, unreadable, and one the tuple parser does not return on.
SampleFiles ==
    {File(K, "none", 0, {}) : K \in DatasetSources}
    \cup { File(DATASET_SOURCE_RADIOML_2016_10A, "unreadable", 0, {}),
           File(DATASET_SOURCE_RADIOML_2016_10A, "noParen",
                CombosNr(DATASET_SOURCE_RADIOML_2016_10A) - 1, {}),
           File(DATASET_SOURCE_RADIOML_2018_01, "noY", 0, {}),
           File(DATASET_SOURCE_HISARMOD_2019_1, "short",
                FRAMES_PER_MOD_SNR_NR[DATASET_SOURCE_HISARMOD_2019_1], {}) }

NoGhost == [awaiting |-> FALSE, before |-> <<EmptyMap, <<>>, <<>>>>, handled |-> 0]

\* The program after the construction of the presenter, with the files
\* `files` on disk, one of the scans `scans` found by TxHal::updateIioScanContexts
\* and `used` of the run's opens spent.
PresenterInit(files, scans, used) ==
    /\ disk = files
    /\ \E scan \in scans : \E env \in HalEnvs(ContextDevice(scan, 0)) :
       \E m \in IndeterminateModulations : \E s \in IndeterminateSnrs :
         LET r == initializeTxDevice([TxHal EXCEPT !.mIioScanContextsVec = scan],
                                     [v \in Variants |-> AdiTrx],
                                     IF scan = <<>> THEN -1 ELSE 0, env)
         IN  /\ hal = r.hal
             /\ trx = r.trx
             /\ ui = RadioModTx(r.hal, m, s)
    /\ parser = [K \in DatasetSources |-> DatasetParser]
    /\ thread = [K \in DatasetSources |-> "idle"]
    /\ queue = <<>>
    /\ ghost = NoGhost
    /\ dut = TX_DEVICE_UNKNOWN
    /\ crashed = FALSE
    /\ lastCall = NoCall
    /\ calls = used

Init == PresenterInit(SampleFiles, ScanLists, 0)

ParserInit == PresenterInit(AllFiles, {<<TX_DEVICE_AD9361>>}, MaxOpens - 1)

-----------------------------------------------------------------------------
(* Actions: the slots of the presenter, the workers, the main event loop    *)

Called(op, ret) == [NoCall EXCEPT !.op = op, !.ret = ret]

\* A dataset radio button is clicked.
UpdateDatasetSrc ==
    /\ ~crashed
    /\ isEnabled(ui, "DatasetRadioButton")
    /\ \E aIndex \in DatasetSources : ui' = updateDatasetSrc(ui, aIndex)
    /\ lastCall' = Called("updateDatasetSrc", FALSE)
    /\ UNCHANGED <<dut, trx, crashed, calls, disk, hal, parser, thread, queue, ghost>>

\* RadioModTx::openDatasetSrc with no file chosen, or a file that cannot be
\* opened: only mDatasetType is written.
OpenNothing ==
    /\ ~crashed
    /\ isEnabled(ui, "OpenDatasetButton")
    /\ queue = <<>>
    /\ ui' = [ui EXCEPT !.mDatasetType = ui.mSource]
    /\ lastCall' = Called("openDatasetSrc", FALSE)
    /\ UNCHANGED <<dut, trx, crashed, calls, disk, hal, parser, thread, queue, ghost>>

\* RadioModTx::openDatasetSrc with a file of the disk chosen.  The file
\* dialog runs the event loop, so the events posted before are dispatched
\* before the file is handed to the parser and its thread is started.  The
\* parser object holds the file as what the parse routine will read from it.
OpenDatasetSrc ==
    /\ ~crashed
    /\ isEnabled(ui, "OpenDatasetButton")
    /\ queue = <<>>
    /\ calls < MaxOpens
    /\ calls' = calls + 1
    /\ \E file \in {f \in disk : f.kind = ui.mSource} :
         LET K == ui.mSource
         IN  /\ parser' =
                  [parser EXCEPT ![K] =
                     [@ EXCEPT !.mFileName = FileContent(file),
                               !.mSingleModulation =
                                   IF K = DATASET_SOURCE_RADIOML_2018_01
                                   THEN ui.mCrtModulation ELSE @]]
             /\ \E s \in start(thread[K]) : thread' = [thread EXCEPT ![K] = s]
             /\ ui' = updateControlsParseStarted([ui EXCEPT !.mDatasetType = K])
    /\ ghost' = [awaiting |-> TRUE, before |-> Store(ui), handled |-> 0]
    /\ lastCall' = Called("openDatasetSrc", TRUE)
    /\ UNCHANGED <<dut, trx, crashed, disk, hal, queue>>

\* The started() signal calls the parse slot, which first clears the
\* parser object.
WorkerBegin ==
    /\ ~crashed
    /\ \E K \in DatasetSources :
         /\ thread[K] = "started"
         /\ thread' = [thread EXCEPT ![K] = "parsing"]
         /\ parser' = [parser EXCEPT ![K] = parseCleared(@)]
    /\ UNCHANGED <<dut, trx, crashed, lastCall, calls, disk, ui, hal, queue, ghost>>

\* The parse slot returns: the parser object holds the result and
\* parseFinished() has been emitted.
WorkerFinish ==
    /\ ~crashed
    /\ \E K \in DatasetSources :
         /\ thread[K] = "parsing"
         /\ parseReturns(K, parser[K])
         /\ \E mallocOk \in MallocOutcomes(K) :
              parser' = [parser EXCEPT ![K] = parse(K, @, mallocOk)]
         /\ thread' = [thread EXCEPT ![K] = "looping"]
         /\ queue' = queue \o ParseFinishedEvents(K)
    /\ UNCHANGED <<dut, trx, crashed, lastCall, calls, disk, ui, hal, ghost>>

\* The main event loop delivers parseFinished() to the presenter.
DispatchParseFinished ==
    /\ ~crashed
    /\ queue # <<>>
    /\ Head(queue).slot = "handleDatasetParseFinished"
    /\ queue' = Tail(queue)
    /\ \E wrOk \in BOOLEAN :
         LET r == handleDatasetParseFinished(ui, hal, trx, parser, wrOk)
         IN  /\ ui' = r.ui
             /\ trx' = r.fs.trx
             /\ lastCall' =
                  [Called("handleDatasetParseFinished", r.ui.mParserStatus) EXCEPT
                     !.param = IF r.fs.called THEN "fs" ELSE "",
                     !.arg = r.fs.arg, !.wrote = r.fs.wrote, !.wrOk = r.fs.wrote /\ wrOk,
                     !.before = trx[TX_DEVICE_AD9361].mTxSamplingFrequency]
    /\ ghost' = [ghost EXCEPT !.awaiting = FALSE, !.handled = @ + 1]
    /\ UNCHANGED <<dut, crashed, calls, disk, hal, parser, thread>>

\* The main event loop delivers parseFinished() to QThread::quit.
DispatchQuit ==
    /\ ~crashed
    /\ queue # <<>>
    /\ Head(queue).slot = "quit"
    /\ queue' = Tail(queue)
    /\ thread' = [thread EXCEPT ![Head(queue).kind] = IF @ = "looping" THEN "exiting" ELSE @]
    /\ UNCHANGED <<dut, trx, crashed, lastCall, calls, disk, ui, hal, parser, ghost>>

\* run() of a thread whose event loop was told to quit returns.
ThreadExit ==
    /\ ~crashed
    /\ \E K \in DatasetSources :
         /\ thread[K] = "exiting"
         /\ thread' = [thread EXCEPT ![K] = "idle"]
    /\ UNCHANGED <<dut, trx, crashed, lastCall, calls, disk, ui, hal, parser, queue, ghost>>

\* An entry of the modulation list is activated.
HandleModulationNameChanged ==
    /\ ~crashed
    /\ isEnabled(ui, "ModulationNameComboBox")
    /\ \E aIndex \in 0..(Len(ui.ModulationNameComboBox) - 1) :
         ui' = handleModulationNameChanged(ui, aIndex)
    /\ lastCall' = Called("handleModulationNameChanged", FALSE)
    /\ UNCHANGED <<dut, trx, crashed, calls, disk, hal, parser, thread, queue, ghost>>

\* An entry of the SNR list is activated.
HandleModulationSnrChanged ==
    /\ ~crashed
    /\ isEnabled(ui, "ModulationSnrComboBox")
    /\ \E aIndex \in 0..(Len(ui.ModulationSnrComboBox) - 1) :
         ui' = handleModulationSnrChanged(ui, aIndex)
    /\ lastCall' = Called("handleModulationSnrChanged", FALSE)
    /\ UNCHANGED <<dut, trx, crashed, calls, disk, hal, parser, thread, queue, ghost>>

\* RadioModTx::handleTxChanged: an entry of the transmitter list is activated.
HandleTxChanged ==
    /\ ~crashed
    /\ isEnabled(ui, "FramesTxComboBox")
    /\ calls < MaxOpens
    /\ calls' = calls + 1
    /\ \E aIndex \in 0..(Len(hal.mIioScanContextsVec) - 1) :
       \E env \in HalEnvs(ContextDevice(hal.mIioScanContextsVec, aIndex)) :
         LET r == initializeTxDevice(hal, trx, aIndex, env)
         IN  /\ hal' = r.hal
             /\ trx' = r.trx
             /\ ui' = updateTxControls([ui EXCEPT !.mTxIioScanIndex = aIndex], r.hal)
             /\ lastCall' = Called("handleTxChanged", r.hal.mIsInitialized)
    /\ UNCHANGED <<dut, crashed, disk, parser, thread, queue, ghost>>

\* RadioModTx::handleStartTxStreaming.  std::map::at throws when the store
\* has no data for the selected modulation and SNR; nothing catches it.
HandleStartTxStreaming ==
    /\ ~crashed
    /\ isEnabled(ui, "StartFramesButton")
    /\ IF ~hal.mIsInitialized
       THEN UNCHANGED <<ui, hal, crashed>>
       ELSE /\ ui' = startControls(ui)
            /\ IF <<ui.mCrtModulation, ui.mCrtSnrDb>> \in DOMAIN ui.mMap
               THEN /\ hal' = [hal EXCEPT
                                 !.mSignalMaxVal =
                                     ui.mMap[<<ui.mCrtModulation, ui.mCrtSnrDb>>].maxVal,
                                 !.mStreaming = TRUE]
                    /\ crashed' = FALSE
               ELSE /\ crashed' = TRUE
                    /\ UNCHANGED hal
    /\ lastCall' = Called("handleStartTxStreaming", hal.mIsInitialized)
    /\ UNCHANGED <<dut, trx, calls, disk, parser, thread, queue, ghost>>

\* RadioModTx::handleStopTxStreaming.
HandleStopTxStreaming ==
    /\ ~crashed
    /\ isEnabled(ui, "StopFramesButton")
    /\ IF ~hal.mIsInitialized
       THEN UNCHANGED <<ui, hal>>
       ELSE /\ ui' = stopControls(ui)
            /\ hal' = [hal EXCEPT !.mStreaming = FALSE]
    /\ lastCall' = Called("handleStopTxStreaming", hal.mIsInitialized)
    /\ UNCHANGED <<dut, trx, crashed, calls, disk, parser, thread, queue, ghost>>

Next ==
    \/ UpdateDatasetSrc
    \/ OpenNothing
    \/ OpenDatasetSrc
    \/ WorkerBegin
    \/ WorkerFinish
    \/ DispatchParseFinished
    \/ DispatchQuit
    \/ ThreadExit
    \/ HandleModulationNameChanged
    \/ HandleModulationSnrChanged
    \/ HandleTxChanged
    \/ HandleStartTxStreaming
    \/ HandleStopTxStreaming

\* The presenter with a few files of each kind on disk.
Spec == Init /\ [][Next]_vars

\* The enabling condition of WorkerFinish: a parse routine is executing and
\* returns.
WorkerCanFinish ==
    /\ ~crashed
    /\ \E K \in DatasetSources : thread[K] = "parsing" /\ parseReturns(K, parser[K])

\* The worker threads run, and the main thread returns to its event loop.
\* Weak fairness of WorkerFinish is written out with its enabling condition.
Fairness ==
    /\ WF_vars(WorkerBegin)
    /\ ([]<>(~WorkerCanFinish) \/ []<><<WorkerFinish>>_vars)
    /\ WF_vars(DispatchParseFinished)
    /\ WF_vars(DispatchQuit)
    /\ WF_vars(ThreadExit)

FairSpec == Spec /\ Fairness

\* The presenter with every file of the three families on disk, one of
\* which is opened.
ParserSpec == ParserInit /\ [][Next]_vars

-----------------------------------------------------------------------------
(* SpecTrx: one transceiver variant driven through initialize and setters  *)

TrxInit ==
    /\ dut \in Variants
    /\ trx = [v \in Variants |-> AdiTrx]
    /\ crashed = FALSE
    /\ lastCall = NoCall
    /\ calls = 0
    /\ disk = {}
    /\ hal = TxHal
    /\ ui = RadioModTx(TxHal, NAME_UNKNOWN, 0)
    /\ parser = [K \in DatasetSources |-> DatasetParser]
    /\ thread = [K \in DatasetSources |-> "idle"]
    /\ queue = <<>>
    /\ ghost = NoGhost

\* TxHal::initializeTxDevice on the variant under test: release what a
\* successful earlier initialize acquired, then initialize.  Enabling a null
\* channel is undefined: the call either kills the process or goes on.
TrxInitialize ==
    /\ ~crashed
    /\ calls < MaxCalls
    /\ calls' = calls + 1
    /\ \E env \in Envs(dut) :
         LET t0 == IF trx[dut].mInitialized THEN freeResources(trx[dut]) ELSE trx[dut]
             r == initialize(dut, t0, env)
             call == [NoCall EXCEPT !.op = "initialize", !.env = env,
                                    !.nullEnable = r.nullEnable]
         IN  \/ /\ trx' = [trx EXCEPT ![dut] = r.t]
                /\ lastCall' = [call EXCEPT !.ret = r.ret]
                /\ crashed' = FALSE
             \/ /\ r.nullEnable
                /\ trx' = [trx EXCEPT ![dut] = [t0 EXCEPT !.mInitialized = FALSE]]
                /\ lastCall' = call
                /\ crashed' = TRUE
    /\ UNCHANGED <<dut, presenterVars>>

\* One setter call on the initialised variant, as TxHal's clients make it.
TrxSet ==
    /\ ~crashed
    /\ calls < MaxCalls
    /\ calls' = calls + 1
    /\ trx[dut].mInitialized
    /\ \E param \in Params : \E arg \in Args(param) : \E wrOk \in BOOLEAN :
         LET r == setTx(dut, param, trx[dut], arg, wrOk)
         IN  /\ trx' = [trx EXCEPT ![dut] = r.t]
             /\ lastCall' = [NoCall EXCEPT !.op = "set", !.param = param, !.arg = arg,
                                !.wrOk = wrOk, !.ret = r.ret, !.wrote = r.wrote,
                                !.before = trx[dut][CacheField(param)],
                                !.after = r.t[CacheField(param)],
                                !.range = RangeOf(trx[dut], param)]
    /\ UNCHANGED <<dut, crashed, presenterVars>>

TrxNext == TrxInitialize \/ TrxSet

SpecTrx == TrxInit /\ [][TrxNext]_vars

-----------------------------------------------------------------------------
(* Properties of the transceiver variants, checked under SpecTrx           *)

\* The argument of the last setter call lies in the range it was checked against.
ArgInRange == lastCall.arg >= lastCall.range.min /\ lastCall.arg <= lastCall.range.max

\* The parameters each variant can write.
Writable(dev, param) ==
    CASE dev = TX_DEVICE_AD9361 -> param \in {"lo", "fs", "bw", "gain"}
      [] dev = TX_DEVICE_ADRV9009 -> param \in {"lo", "gain"}
      [] dev = TX_DEVICE_AD9081 -> param \in {"lo", "nco"}

\* The parameters each variant declares a range for (variant B pins sampling
\* frequency and bandwidth to one value).
HasDeclaredRange(dev, param) ==
    CASE dev = TX_DEVICE_AD9361 -> param \in {"lo", "fs", "bw", "gain"}
      [] dev = TX_DEVICE_ADRV9009 -> param \in {"lo", "fs", "bw", "gain"}
      [] dev = TX_DEVICE_AD9081 -> param \in {"lo", "nco"}

\* C2: initialize sets initialized only if every step succeeded; a context
\* whose Q streaming channel is missing makes initialize return with
\* initialized = false.
InitializedOnlyIfEveryStepSucceeded ==
    lastCall.op = "initialize" =>
        /\ trx[dut].mInitialized =>
              (lastCall.env.missing = {} /\ lastCall.env.bad = "none")
        /\ "Q" \in lastCall.env.missing => (~crashed /\ ~trx[dut].mInitialized)

\* C3: a setter that returns false leaves the cached value of its parameter
\* unchanged, and a setter whose argument is outside the cached range issues
\* no attribute write.
FailedSetterKeepsCache ==
    lastCall.op = "set" =>
        /\ ~lastCall.ret => lastCall.after = lastCall.before
        /\ ~ArgInRange => ~lastCall.wrote

\* C3 witness: an in-range value different from the cached one was written,
\* the write failed, and the setter returned false.
FailedWriteSeen ==
    /\ lastCall.op = "set"
    /\ ArgInRange /\ lastCall.wrote /\ ~lastCall.wrOk /\ ~lastCall.ret
    /\ lastCall.arg # lastCall.before

\* C4 (as amended): an argument outside the declared range is always
\* rejected; on a writable parameter an argument inside the range is accepted
\* exactly when the attribute write succeeds; a parameter the variant cannot
\* write is always rejected.
SetterAcceptsWritableInRange ==
    lastCall.op = "set" =>
        /\ ~ArgInRange => ~lastCall.ret
        /\ (ArgInRange /\ Writable(dut, lastCall.param)) => (lastCall.ret <=> lastCall.wrOk)
        /\ ~Writable(dut, lastCall.param) => ~lastCall.ret

\* C4 witness: a writable parameter was set to an in-range value and the
\* setter returned true.
InRangeSetterAccepted ==
    /\ lastCall.op = "set"
    /\ Writable(dut, lastCall.param) /\ ArgInRange /\ lastCall.ret

\* C4 as stated: on an initialised variant a setter of a parameter with a
\* declared range returns true if and only if the argument is in the range.
SetterRejectsIffOutOfRange ==
    (lastCall.op = "set" /\ HasDeclaredRange(dut, lastCall.param)) =>
        (lastCall.ret <=> ArgInRange)

\* C5: immediately after a setter returns true the cached value of its
\* parameter equals the argument.
SuccessfulSetterUpdatesCache ==
    (lastCall.op = "set" /\ lastCall.ret) => lastCall.after = lastCall.arg

-----------------------------------------------------------------------------
(* HalSpec: TxHal driven through its operations                             *)

MaxHalCalls == 4

\* The getters and setters are called among the first calls only.
MaxQueryCalls == 2

SignalFrames == 2

SignalLength == 3

\* The k-th point (from 0) of the signals handed to the HAL, in thousandths.
HalSample(k) ==
    [i |-> (k % 5) * 500 - 1000, q |-> IF k % 2 = 1 THEN -1000 ELSE 250 * (k % 4)]

\* The largest magnitude of the components of the frames, as the parsers
\* deliver it with the frames.
MaxValOf(frames) ==
    LET mags == {0} \cup UNION { UNION { {Abs(frames[f][p].i), Abs(frames[f][p].q)} :
                                         p \in 1..Len(frames[f]) } : f \in 1..Len(frames) }
    IN  CHOOSE m \in mags : \A n \in mags : n <= m

HalFrames ==
    [f \in 1..SignalFrames |->
       [p \in 1..SignalLength |-> HalSample((f - 1) * SignalLength + p - 1)]]

\* The signals handed to the HAL: frames of equal length, the same with
\* every sample zero, the same with the last frame one point short, and data
\* without frames.
HalSignals ==
    { SignalData(HalFrames, MaxValOf(HalFrames)),
      SignalData([f \in 1..SignalFrames |-> [p \in 1..SignalLength |-> [i |-> 0, q |-> 0]]], 0),
      SignalData([HalFrames EXCEPT ![SignalFrames] = SubSeq(@, 1, SignalLength - 1)],
                 MaxValOf(HalFrames)),
      SignalData(<<>>, 0) }

\* What the cast of a value that is not finite yields.
NanCasts == {0, -32768}

\* The environments of an initialize: the device answers, its context cannot
\* be created, or a step after the devices were found is refused.
LateEnvs(dev) ==
    IF dev \in Variants
    THEN {e \in Envs(dev) : e.bad = "none" /\ e.missing \subseteq {"ctx", "loChan", "wrChFreq"}}
    ELSE {NoEnv}

\* What a variant holds of the transport.
Resources(t) ==
    [ mTxBuf |-> t.mTxBuf, mTx0_I |-> t.mTx0_I, mTx0_Q |-> t.mTx0_Q,
      mTxNcoChan |-> t.mTxNcoChan, mTxLoChan |-> t.mTxLoChan,
      mTxPhyChan |-> t.mTxPhyChan, mIioContext |-> t.mIioContext ]

\* The record of the last HAL call: the operation, what it returned, the
\* active variant, the initialised flag and what the active variant held
\* before the call, whether the active variant has filled and pushed a
\* buffer since it was selected and, for
\* initializeTxDevice, the variant selected and what the variant active
\* before held when its successor's initialize began.
NoHalCall ==
    [ op |-> "none", ret |-> FALSE, param |-> "", device |-> TX_DEVICE_UNKNOWN,
      wasInitialized |-> FALSE, held |-> Resources(AdiTrx), started |-> FALSE,
      prevOp |-> "none",
      selected |-> TX_DEVICE_UNKNOWN, atOpen |-> Resources(AdiTrx),
      range |-> ZeroRange ]

HalCalled(op, ret) ==
    [NoHalCall EXCEPT !.op = op, !.ret = ret, !.device = hal.mTxDevice,
                      !.wasInitialized = hal.mIsInitialized,
                      !.started = lastCall.started, !.prevOp = lastCall.op,
                      !.held = IF hal.mTxDevice \in Variants
                               THEN Resources(trx[hal.mTxDevice])
                               ELSE Resources(AdiTrx)]

\* mTxDev of the active variant belongs to a context that is open.  (In the
\* environments of LateEnvs an initialize that opens its context also finds
\* its devices.)
DeviceValid ==
    /\ hal.mTxDevice \in Variants
    /\ trx[hal.mTxDevice].mTxDev
    /\ trx[hal.mTxDevice].mIioContext

\* The HAL after the construction of the presenter, which scans the
\* contexts and initializes the device of the first one.
HalInit ==
    /\ \E env \in LateEnvs(TX_DEVICE_AD9361) :
         LET r == initializeTxDevice(
                      [TxHal EXCEPT !.mIioScanContextsVec =
                         <<TX_DEVICE_AD9361, TX_DEVICE_ADRV9009, TX_DEVICE_AD9081>>],
                      [v \in Variants |-> AdiTrx], 0, env)
         IN  hal = r.hal /\ trx = r.trx
    /\ crashed = FALSE
    /\ lastCall = NoHalCall
    /\ calls = 0
    /\ dut = TX_DEVICE_UNKNOWN
    /\ disk = {}
    /\ ui = RadioModTx(TxHal, NAME_UNKNOWN, 0)
    /\ parser = [K \in DatasetSources |-> DatasetParser]
    /\ thread = [K \in DatasetSources |-> "idle"]
    /\ queue = <<>>
    /\ ghost = NoGhost

HalUnchanged == UNCHANGED <<dut, disk, ui, parser, thread, queue, ghost>>

\* TxHal::initializeTxDevice with an index in or out of the scan list.
HalInitializeTxDevice ==
    /\ ~crashed
    /\ calls < MaxHalCalls
    /\ calls' = calls + 1
    /\ \E aIndex \in -1..(Len(hal.mIioScanContextsVec) - 1) :
       \E env \in LateEnvs(ContextDevice(hal.mIioScanContextsVec, aIndex)) :
         LET r == initializeTxDevice(hal, trx, aIndex, env)
         IN  /\ hal' = r.hal
             /\ trx' = r.trx
             /\ lastCall' =
                  [HalCalled("initializeTxDevice", r.hal.mIsInitialized) EXCEPT
                     !.selected = r.hal.mTxDevice,
                     !.started = FALSE,
                     !.atOpen = IF hal.mTxDevice \in Variants
                                THEN Resources(r.atOpen[hal.mTxDevice])
                                ELSE Resources(AdiTrx)]
    /\ UNCHANGED crashed
    /\ HalUnchanged

\* TxHal::getData.  The exception of at( 0 ) is not caught.
HalGetData ==
    /\ ~crashed
    /\ calls < MaxHalCalls
    /\ calls' = calls + 1
    /\ \E aSignalData \in HalSignals :
         LET r == getData(hal, trx, aSignalData)
         IN  /\ trx' = r.trx
             /\ crashed' = r.throws
    /\ lastCall' = HalCalled("getData", FALSE)
    /\ UNCHANGED hal
    /\ HalUnchanged

\* TxHal::startStreaming.  Creating a buffer on a device that is null or
\* belongs to a destroyed context is undefined, and so is walking the slots
\* of a null buffer: the call kills the process or goes on, the buffer not
\* created.
HalStartStreaming ==
    /\ ~crashed
    /\ calls < MaxHalCalls
    /\ calls' = calls + 1
    /\ \E createOk \in (IF DeviceValid THEN BOOLEAN ELSE {FALSE}) :
       \E nanCast \in NanCasts :
         LET r == startStreaming(hal, trx, createOk, nanCast)
             undefined == \/ r.nullBuffer
                          \/ (hal.mTxDevice \in Variants /\ ~DeviceValid
                              /\ trx[hal.mTxDevice].mFrameLength
                                   * trx[hal.mTxDevice].mFramesNr # 0)
         IN  /\ trx' = r.trx
             /\ lastCall' =
                  [HalCalled("startStreaming", r.ret) EXCEPT
                     !.started = @ \/ (r.ret /\ ~r.nullBuffer /\ ~r.throws)]
             /\ \/ crashed' = r.throws
                \/ undefined /\ crashed' = TRUE
    /\ UNCHANGED hal
    /\ HalUnchanged

\* TxHal::stopStreaming.
HalStopStreaming ==
    /\ ~crashed
    /\ calls < MaxHalCalls
    /\ calls' = calls + 1
    /\ \E createOk \in (IF DeviceValid THEN BOOLEAN ELSE {FALSE}) :
         LET r == stopStreaming(hal, trx, createOk)
         IN  /\ trx' = r.trx
             /\ lastCall' = HalCalled("stopStreaming", r.ret)
             /\ \/ crashed' = FALSE
                \/ (hal.mTxDevice \in Variants /\ ~DeviceValid) /\ crashed' = TRUE
    /\ UNCHANGED hal
    /\ HalUnchanged

\* One of the getters of TxHal; the attribute read yields 7 or fails.
HalGet ==
    /\ ~crashed
    /\ calls < MaxQueryCalls
    /\ calls' = calls + 1
    /\ \E param \in Params : \E readOk \in BOOLEAN :
         LET r == TxHal_getTx(hal, trx, param, readOk, 7)
         IN  /\ trx' = r.trx
             /\ lastCall' = [HalCalled("get", r.ret) EXCEPT !.param = param]
    /\ UNCHANGED <<hal, crashed>>
    /\ HalUnchanged

\* One of the setters of TxHal.
HalSet ==
    /\ ~crashed
    /\ calls < MaxQueryCalls
    /\ calls' = calls + 1
    /\ \E param \in HalSetters : \E wrOk \in BOOLEAN :
       \E arg \in {a \in Args(param) : a \in {6000000, 2083333, 50}} :
         LET r == TxHal_setTx(hal, trx, param, arg, wrOk)
         IN  /\ trx' = r.trx
             /\ lastCall' = [HalCalled("set", r.ret) EXCEPT !.param = param]
    /\ UNCHANGED <<hal, crashed>>
    /\ HalUnchanged

\* TxHal::getTxLoFrequencyRange.
HalGetTxLoFrequencyRange ==
    /\ ~crashed
    /\ calls < MaxQueryCalls
    /\ calls' = calls + 1
    /\ lastCall' = [HalCalled("getTxLoFrequencyRange", FALSE) EXCEPT
                      !.range = getTxLoFrequencyRange(hal, trx)]
    /\ UNCHANGED <<hal, trx, crashed>>
    /\ HalUnchanged

HalNext ==
    \/ HalInitializeTxDevice
    \/ HalGetData
    \/ HalStartStreaming
    \/ HalStopStreaming
    \/ HalGet
    \/ HalSet
    \/ HalGetTxLoFrequencyRange

HalSpec == HalInit /\ [][HalNext]_vars

-----------------------------------------------------------------------------
(* Properties of the HAL, checked under HalSpec                             *)

\* The variants that hold a live buffer.
BufferHolders == {v \in Variants : trx[v].mTxBuf}

\* C11: after any sequence of initializeTxDevice, startStreaming and
\* stopStreaming at most one of the three variants holds a live buffer, and
\* within a variant a buffer is created only after the one before was
\* destroyed: a variant never has more than one buffer object.
OneLiveDmaBuffer ==
    /\ Cardinality(BufferHolders) <= 1
    /\ \A v \in Variants : trx[v].liveBuffers = (IF trx[v].mTxBuf THEN 1 ELSE 0)

\* C12: when initializeTxDevice is called while the HAL is initialised, the
\* buffer, the enabled channels and the transport context of the variant
\* active before are all released by the time the initialize of the variant
\* selected begins.
TeardownBeforeReselect ==
    (lastCall.op = "initializeTxDevice" /\ lastCall.wasInitialized) =>
        lastCall.atOpen = Resources(AdiTrx)

\* A variant that streamed was replaced by another variant, which was
\* initialised.
StreamingVariantReplaced ==
    /\ lastCall.op = "initializeTxDevice"
    /\ lastCall.wasInitialized
    /\ lastCall.held.mTxBuf /\ lastCall.held.mIioContext /\ lastCall.held.mTx0_I
    /\ lastCall.selected \in Variants \ {lastCall.device}
    /\ lastCall.ret

\* The operations TxHal forwards to the active variant.
ForwardedOps ==
    {"get", "set", "getTxLoFrequencyRange", "getData", "startStreaming", "stopStreaming"}

\* C13: with no active variant every forwarded operation is a no-op that
\* reports failure: the getters and setters return false, the LO frequency
\* range is all zero, and starting, stopping and loading a signal change no
\* state of any variant.
NoVariantNoOp ==
    [][ (hal.mTxDevice = TX_DEVICE_UNKNOWN /\ lastCall'.op \in ForwardedOps) =>
            /\ trx' = trx
            /\ hal' = hal
            /\ ~lastCall'.ret
            /\ lastCall'.range = ZeroRange
            /\ ~crashed' ]_vars

\* A setter was called on a HAL without an active variant, after a variant
\* had been initialised and released.
SetterWithoutVariant ==
    /\ lastCall.op = "set"
    /\ lastCall.device = TX_DEVICE_UNKNOWN
    /\ \E v \in Variants : trx[v].mInitialized

\* The DAC resolution of each variant, in bits.
DacBits(dev) ==
    CASE dev = TX_DEVICE_AD9361 -> 12
      [] dev = TX_DEVICE_ADRV9009 -> 14
      [] dev = TX_DEVICE_AD9081 -> 16

\* The fixed-point value of the component x of a signal of largest
\* magnitude maxAbs on a DAC of W bits: x * (2^(W-1) - 1) / maxAbs cut to a
\* whole number and shifted left by 16 - W.
FixedPoint(W, x, maxAbs) == Trunc(x * (Pow2(W - 1) - 1), maxAbs) * Pow2(16 - W)

\* The variant the last call was forwarded to.
Callee == trx[lastCall.device]

\* startStreaming has returned on a variant that holds a signal of
\* mFramesNr frames of mFrameLength points each, not all of them zero.
StartedOnFrames ==
    /\ lastCall.op = "startStreaming"
    /\ lastCall.device \in Variants
    /\ ~crashed
    /\ Callee.mSignalData.maxVal > 0
    /\ Callee.mFramesNr > 0 /\ Callee.mFrameLength > 0
    /\ \A f \in 1..Callee.mFramesNr :
          Len(Callee.mSignalData.frameDataVec[f]) = Callee.mFrameLength

\* The variant holds one live buffer of L * N slots, slot k holds the
\* fixed-point value of point k mod L of frame k div L, and the buffer was
\* pushed once.
BufferHoldsFrames ==
    LET L == Callee.mFrameLength
        N == Callee.mFramesNr
        W == DacBits(lastCall.device)
        point(k) == Callee.mSignalData.frameDataVec[(k \div L) + 1][(k % L) + 1]
    IN  /\ Callee.mTxBuf /\ Callee.liveBuffers = 1
        /\ Callee.mTxBufIqPairsCount = L * N
        /\ Len(Callee.buffer.slots) = L * N
        /\ \A k \in 0..(L * N - 1) :
              Callee.buffer.slots[k + 1] =
                  <<FixedPoint(W, point(k).i, Callee.mSignalData.maxVal),
                    FixedPoint(W, point(k).q, Callee.mSignalData.maxVal)>>
        /\ Callee.buffer.pushes = 1

\* The variant holds no buffer and nothing was pushed.
NoBufferLeft ==
    /\ ~Callee.mTxBuf /\ Callee.liveBuffers = 0
    /\ Callee.buffer.slots = <<>>
    /\ Callee.buffer.pushes = 0

\* C14 (as amended): startStreaming on a signal of N frames of L points,
\* when the transport creates the buffer, leaves a cyclic buffer of exactly
\* L * N slots whose slot k holds the converted sample of frame k div L,
\* point k mod L, pushed exactly once; when the transport refuses the
\* buffer, no buffer is left and nothing is pushed.
StartFillsOrLeavesNoBuffer ==
    StartedOnFrames => IF lastCall.ret THEN BufferHoldsFrames ELSE NoBufferLeft

\* A start replaced the buffer of an earlier start or stop by the frames.
RestartFilledBuffer ==
    StartedOnFrames /\ lastCall.ret /\ lastCall.held.mTxBuf /\ Callee.buffer.pushes = 1

\* C14 as stated: startStreaming on a signal of N frames of L points leaves
\* a cyclic buffer of exactly L * N slots, filled frame by frame and pushed
\* exactly once.
StartFillsBuffer == StartedOnFrames => BufferHoldsFrames

\* stopStreaming has returned on a variant that had started streaming.
StoppedAfterStart ==
    /\ lastCall.op = "stopStreaming"
    /\ lastCall.device \in Variants
    /\ lastCall.started
    /\ ~crashed

\* The variant holds exactly one live buffer, of 1024 slots, every slot
\* (0, 0), pushed once.
SilentBuffer ==
    /\ Callee.mTxBuf /\ Callee.liveBuffers = 1
    /\ Callee.mTxBufIqPairsCount = 1024
    /\ Callee.buffer.slots = [k \in 1..1024 |-> <<0, 0>>]
    /\ Callee.buffer.pushes = 1

\* C16 (as amended): after startStreaming, every stopStreaming for which the
\* transport creates the buffer leaves exactly one live cyclic buffer of
\* 1024 slots, all zero, pushed, and a stopStreaming that follows such a
\* stop and gets its buffer too changes nothing; a stopStreaming the
\* transport refuses the buffer to leaves no buffer.
StopSilencesOrLeavesNoBuffer ==
    /\ [](StoppedAfterStart => IF lastCall.ret THEN SilentBuffer ELSE NoBufferLeft)
    /\ [][ ( /\ StoppedAfterStart /\ lastCall.ret
             /\ lastCall'.op = "stopStreaming" /\ lastCall'.ret /\ ~crashed' )
           => trx' = trx ]_vars

\* A stop was called right after a stop, and both got their buffer.
StoppedTwice ==
    /\ StoppedAfterStart /\ lastCall.ret
    /\ lastCall.prevOp = "stopStreaming"
    /\ lastCall.held.mTxBuf

\* C16 as stated: after startStreaming, stopStreaming called once or any
\* number of times leaves exactly one live cyclic buffer of 1024 slots, all
\* zero, pushed.
StopSilences == StoppedAfterStart => SilentBuffer

-----------------------------------------------------------------------------
(* ConvSpec: the conversion of one sample component                        *)

MaxAbsBound == 8

\* A variant, the largest magnitude maxVal of a signal and a component x of
\* one of its samples, in the same unit.
ConvInit ==
    /\ dut \in Variants
    /\ \E maxVal \in 1..MaxAbsBound : \E x \in (-maxVal)..maxVal :
         lastCall = [op |-> "input", x |-> x, maxVal |-> maxVal, out |-> 0]
    /\ trx = [v \in Variants |-> AdiTrx]
    /\ crashed = FALSE
    /\ calls = 0
    /\ disk = {}
    /\ hal = TxHal
    /\ ui = RadioModTx(TxHal, NAME_UNKNOWN, 0)
    /\ parser = [K \in DatasetSources |-> DatasetParser]
    /\ thread = [K \in DatasetSources |-> "idle"]
    /\ queue = <<>>
    /\ ghost = NoGhost

\* The component is converted as startTxStreaming of the variant does.
Convert ==
    /\ lastCall.op = "input"
    /\ \E nanCast \in NanCasts :
         lastCall' = [lastCall EXCEPT
                        !.op = "convert",
                        !.out = convert(dut, lastCall.x, lastCall.maxVal, nanCast)]
    /\ UNCHANGED <<dut, trx, crashed, calls, presenterVars>>

ConvSpec == ConvInit /\ [][Convert]_vars

\* C15: on every variant, with W the DAC resolution, S = 16 - W and
\* SCALE = (2^(W-1) - 1) / maxAbs, the slot value of a component x with
\* |x| <= maxAbs is cast_i16(x * SCALE) << S and lies within
\* [-32768, 32767]; on the 12 bit variant x = maxAbs / 2 yields 16368 and
\* x = -maxAbs yields -32752.
ConvertedWithinInt16 ==
    lastCall.op = "convert" =>
        LET fixed == FixedPoint(DacBits(dut), lastCall.x, lastCall.maxVal)
        IN  /\ lastCall.out = fixed
            /\ fixed >= -32768 /\ fixed <= 32767
            /\ (dut = TX_DEVICE_AD9361 /\ 2 * lastCall.x = lastCall.maxVal) =>
                   lastCall.out = 16368
            /\ (dut = TX_DEVICE_AD9361 /\ lastCall.x = -lastCall.maxVal) =>
                   lastCall.out = -32752

\* The 12 bit variant has converted half of the largest magnitude.
HalfScaleConverted ==
    /\ lastCall.op = "convert"
    /\ dut = TX_DEVICE_AD9361
    /\ 2 * lastCall.x = lastCall.maxVal
    /\ lastCall.out = 16368

-----------------------------------------------------------------------------
(* Properties of the presenter, checked under Spec, FairSpec and ParserSpec *)

\* The completion notification of a parse has just been handled.
ParseHandled == lastCall.op = "handleDatasetParseFinished"

\* A worker has been started and has not returned from its parse routine.
Executing == {K \in DatasetSources : thread[K] \in {"started", "parsing"}}

\* C1: after the completion notification of a failed parse has been handled,
\* the presenter's map, distinct modulations and distinct SNRs are what they
\* were before the parse was started.
FailedParseKeepsStore == (ParseHandled /\ ~lastCall.ret) => Store(ui) = ghost.before

\* C6: after a successful parse the store holds MODULATIONS_NR distinct
\* modulations and SNRS_NR distinct SNRs of the kind parsed, every SignalData
\* has FRAMES_PER_MOD_SNR_NR frames and every frame has FRAME_LENGTH points.
SuccessfulParseHasDeclaredShape ==
    (ParseHandled /\ lastCall.ret) =>
        LET K == ui.mDatasetType
        IN  /\ Cardinality(Range(ui.mUniqueModVec)) = MODULATIONS_NR[K]
            /\ Len(ui.mUniqueModVec) = MODULATIONS_NR[K]
            /\ Cardinality(Range(ui.mUniqueSnrVec)) = SNRS_NR[K]
            /\ Len(ui.mUniqueSnrVec) = SNRS_NR[K]
            /\ \A key \in DOMAIN ui.mMap :
                 /\ Len(ui.mMap[key].frameDataVec) = FRAMES_PER_MOD_SNR_NR[K]
                 /\ \A f \in 1..Len(ui.mMap[key].frameDataVec) :
                      Len(ui.mMap[key].frameDataVec[f]) = FRAME_LENGTH[K]

\* A successful parse of a tuple file has been handled and left data in the store.
SuccessfulParseSeen ==
    /\ ParseHandled
    /\ lastCall.ret
    /\ ui.mDatasetType = DATASET_SOURCE_RADIOML_2016_10A
    /\ DOMAIN ui.mMap # {}

\* C7: the signal data the streaming is started with never has the largest
\* magnitude 0, because no parse of a file with an all-zero combination
\* succeeds.
ZeroSignalNeverStreamed == hal.mStreaming => hal.mSignalMaxVal # 0

XOf(p) == CHOOSE c \in {p.mFileName.children[n] : n \in DOMAIN p.mFileName.children} :
              c.mItemName = "X"

\* The elements of the rows [m * MOD_SLAB, (m + 1) * MOD_SLAB) of X, for the
\* modulation of the parser object at offset m of the modulation order.
SlabOf(p) ==
    LET K == DATASET_SOURCE_RADIOML_2018_01
        dims == XOf(p).mDimensionsVec
        MOD_SLAB == dims[1] \div MODULATIONS_NR[K]
        perRow == dims[2] * dims[3]
    IN  [ allocated |-> MOD_SLAB * perRow,
          first |-> modOffset(p.mSingleModulation) * MOD_SLAB * perRow,
          count |-> MOD_SLAB * perRow ]

\* C19: what the hierarchical parser allocates for and reads from X is the
\* slab of rows of the chosen modulation, no more.
OnlySlabLoaded ==
    LET p == parser[DATASET_SOURCE_RADIOML_2018_01]
    IN  p.loaded.allocated > 0 => p.loaded = SlabOf(p)

\* FoldSpec: the hierarchical parser on containers whose X holds a different
\* number in every element, for each modulation a caller can choose.

MaxSlope == 3

MaxOffset == 4

\* The well-formed container with element e of X holding slope * e + offset.
FoldContent(slope, offset) ==
    LET c == Hdf5Content(File(DATASET_SOURCE_RADIOML_2018_01, "none", 0, {}))
    IN  [c EXCEPT !.children[1].data = [e \in DOMAIN @ |-> slope * e + offset]]

\* The modulations a caller chooses from: those of the modulation order,
\* one that is not in it, and none.
FoldModulations == Range(Hdf5_MODULATION_MAPPING) \cup {"CPFSK", NAME_UNKNOWN}

\* The parser object after Hdf5Parser::setFile and the choice of the
\* modulation, before the worker thread runs the parse.
FoldInit ==
    /\ \E slope \in ((-MaxSlope)..MaxSlope) \ {0} : \E offset \in 0..MaxOffset :
       \E aModulation \in FoldModulations :
         parser = [K \in DatasetSources |->
                     IF K = DATASET_SOURCE_RADIOML_2018_01
                     THEN [DatasetParser EXCEPT !.mFileName = FoldContent(slope, offset),
                                                !.mSingleModulation = aModulation]
                     ELSE DatasetParser]
    /\ lastCall = [op |-> "setFile", mallocOk |-> FALSE]
    /\ dut = TX_DEVICE_AD9361
    /\ trx = [v \in Variants |-> AdiTrx]
    /\ crashed = FALSE
    /\ calls = 0
    /\ disk = {}
    /\ hal = TxHal
    /\ ui = RadioModTx(TxHal, NAME_UNKNOWN, 0)
    /\ thread = [K \in DatasetSources |-> "idle"]
    /\ queue = <<>>
    /\ ghost = NoGhost

\* The parse slot of the hierarchical parser runs to its end.
Fold ==
    /\ lastCall.op = "setFile"
    /\ \E mallocOk \in BOOLEAN :
         /\ parser' = [parser EXCEPT ![DATASET_SOURCE_RADIOML_2018_01] =
                          parse(DATASET_SOURCE_RADIOML_2018_01, parseCleared(@), mallocOk)]
         /\ lastCall' = [op |-> "parse", mallocOk |-> mallocOk]
    /\ UNCHANGED <<dut, trx, crashed, calls, disk, ui, hal, thread, queue, ghost>>

FoldSpec == FoldInit /\ [][Fold]_vars

\* Row r (from 0) of X as a frame: its (I, Q) pairs in order.
RowOfX(X, r) ==
    LET L == X.mDimensionsVec[2]
    IN  [n \in 1..L |-> [i |-> X.data[(r * L + n - 1) * 2],
                         q |-> X.data[(r * L + n - 1) * 2 + 1]]]

\* The parse has succeeded for a modulation of the modulation order.
FoldedModulation ==
    LET p == parser[DATASET_SOURCE_RADIOML_2018_01]
    IN  /\ lastCall.op = "parse"
        /\ p.mStatus
        /\ p.mSingleModulation \in Range(Hdf5_MODULATION_MAPPING)

\* C20: with MOD_SLAB = total_rows / MODULATIONS_NR and SNR_SLAB = MOD_SLAB /
\* SNRS_NR, a successful parse for the modulation at offset m of the
\* modulation order leaves exactly SNRS_NR store entries, keyed (modulation,
\* -20 + 2 * k), and entry k holds the rows [m * MOD_SLAB + k * SNR_SLAB,
\* m * MOD_SLAB + (k + 1) * SNR_SLAB) of X in order, one frame per row.  In
\* the dataset of 2 555 904 rows of 2 * 1024 elements the slab of m = 5
\* starts at row 5 * 106 496, and k = 13 in it has the SNR 6 dB.
SlabFolded ==
    FoldedModulation =>
        LET K == DATASET_SOURCE_RADIOML_2018_01
            p == parser[K]
            X == XOf(p)
            m == (CHOOSE n \in 1..Len(Hdf5_MODULATION_MAPPING) :
                      Hdf5_MODULATION_MAPPING[n] = p.mSingleModulation) - 1
            MOD_SLAB == X.mDimensionsVec[1] \div MODULATIONS_NR[K]
            SNR_SLAB == MOD_SLAB \div SNRS_NR[K]
        IN  /\ DOMAIN p.mMap =
                   {<<p.mSingleModulation, -20 + 2 * k>> : k \in 0..(SNRS_NR[K] - 1)}
            /\ \A k \in 0..(SNRS_NR[K] - 1) :
                   p.mMap[<<p.mSingleModulation, -20 + 2 * k>>].frameDataVec =
                       [f \in 1..SNR_SLAB |->
                          RowOfX(X, m * MOD_SLAB + k * SNR_SLAB + f - 1)]
            /\ 2555904 \div 24 = 106496
            /\ Hdf5_crtSnrDb((5 * 106496 + 13 * 4096) * 2048, 106496 * 2048, 4096 * 2048) = 6

\* A parse has succeeded for a modulation that is not the first of the
\* modulation order, and the store holds the entry of the last SNR.
LaterSlabFolded ==
    LET K == DATASET_SOURCE_RADIOML_2018_01
        p == parser[K]
    IN  /\ FoldedModulation
        /\ p.mSingleModulation # Hdf5_MODULATION_MAPPING[1]
        /\ <<p.mSingleModulation, -20 + 2 * (SNRS_NR[K] - 1)>> \in DOMAIN p.mMap

\* LineSpec: the text-tabular parser on files whose lines all differ, cut
\* off after any number of lines or carrying lines past the last group.

\* The point of cell j (from 1) of line n (from 0).
LinePoint(n, j, slope, offset) == [i |-> n + offset, q |-> slope * j]

\* The file of count lines of FRAME_LENGTH cells each.
LineContent(count, slope, offset) ==
    LET K == DATASET_SOURCE_HISARMOD_2019_1
    IN  [ isOpen |-> TRUE,
          lines |-> [n \in 1..count |->
                       [j \in 1..FRAME_LENGTH[K] |->
                          PointText(LinePoint(n - 1, j, slope, offset))]] ]

\* The parser object after CsvParser::setFile, before the worker thread
\* runs the parse.
LineInit ==
    /\ \E slope \in ((-MaxSlope)..MaxSlope) \ {0} : \E offset \in 0..MaxOffset :
       \E count \in 0..(CombosNr(DATASET_SOURCE_HISARMOD_2019_1)
                          * FRAMES_PER_MOD_SNR_NR[DATASET_SOURCE_HISARMOD_2019_1]
                          + FRAMES_PER_MOD_SNR_NR[DATASET_SOURCE_HISARMOD_2019_1]) :
         /\ parser = [K \in DatasetSources |->
                        IF K = DATASET_SOURCE_HISARMOD_2019_1
                        THEN [DatasetParser EXCEPT
                                !.mFileName = LineContent(count, slope, offset)]
                        ELSE DatasetParser]
         /\ lastCall = [op |-> "setFile", slope |-> slope, offset |-> offset]
    /\ dut = TX_DEVICE_AD9361
    /\ trx = [v \in Variants |-> AdiTrx]
    /\ crashed = FALSE
    /\ calls = 0
    /\ disk = {}
    /\ hal = TxHal
    /\ ui = RadioModTx(TxHal, NAME_UNKNOWN, 0)
    /\ thread = [K \in DatasetSources |-> "idle"]
    /\ queue = <<>>
    /\ ghost = NoGhost

\* The parse slot of the text-tabular parser runs to its end.
ParseLines ==
    /\ lastCall.op = "setFile"
    /\ parser' = [parser EXCEPT ![DATASET_SOURCE_HISARMOD_2019_1] =
                     parse(DATASET_SOURCE_HISARMOD_2019_1, parseCleared(@), TRUE)]
    /\ lastCall' = [lastCall EXCEPT !.op = "parse"]
    /\ UNCHANGED <<dut, trx, crashed, calls, disk, ui, hal, thread, queue, ghost>>

LineSpec == LineInit /\ [][ParseLines]_vars

\* The key of line n (from 0): the modulation of its place in the series
\* and the SNR of its block of lines.
LineKey(n) ==
    LET K == DATASET_SOURCE_HISARMOD_2019_1
        F == FRAMES_PER_MOD_SNR_NR[K]
        perSnr == F * MODULATIONS_NR[K]
    IN  << Csv_MODULATION_MAPPING(MODULATION_SERIES[((n % perSnr) \div F) + 1]),
           -20 + 2 * (n \div perSnr) >>

\* C21: line n (from 0) of a text-tabular file belongs to the key
\* (MODULATION_MAPPING[MODULATION_SERIES[(n mod (F * M)) div F]],
\* -20 + 2 * (n div (F * M))), for F lines per combination and M modulations;
\* a SignalData is inserted after every F-th line and holds exactly the F
\* lines of its group in file order.  The series has 26 modulations.
LinesGrouped ==
    lastCall.op = "parse" =>
        LET K == DATASET_SOURCE_HISARMOD_2019_1
            p == parser[K]
            F == FRAMES_PER_MOD_SNR_NR[K]
            groups == Len(p.mFileName.lines) \div F
            frameOf(n) == [j \in 1..FRAME_LENGTH[K] |->
                             LinePoint(n, j, lastCall.slope, lastCall.offset)]
        IN  /\ DOMAIN p.mMap = {LineKey(g * F) : g \in 0..(groups - 1)}
            /\ \A g \in 0..(groups - 1) :
                 /\ \A n \in (g * F)..(g * F + F - 1) : LineKey(n) = LineKey(g * F)
                 /\ p.mMap[LineKey(g * F)].frameDataVec =
                        [f \in 1..F |-> frameOf(g * F + f - 1)]
            /\ Len(MODULATION_SERIES) = 26

\* A whole file was parsed with success: the store holds the group of the
\* last modulation at the last SNR.
WholeFileGrouped ==
    LET K == DATASET_SOURCE_HISARMOD_2019_1
        p == parser[K]
    IN  /\ lastCall.op = "parse"
        /\ p.mStatus
        /\ Cardinality(DOMAIN p.mMap) = CombosNr(K)
        /\ LineKey(CombosNr(K) * FRAMES_PER_MOD_SNR_NR[K] - 1) \in DOMAIN p.mMap

\* AliasSpec: the construction of the modulation registry over alias tables.
\* A table is a sequence, in key order, of pairs of a name and the vector of
\* the strings the name is known by.

AliasNamesNr == 3

MaxAliases == 2

AliasStrings == {"BPSK", "2PSK", "PSK2"}

RECURSIVE AliasVectors(_)
\* The vectors of at most n alias strings.
AliasVectors(n) ==
    IF n = 0 THEN {<<>>}
    ELSE AliasVectors(n - 1)
         \cup {Append(v, x) : v \in {w \in AliasVectors(n - 1) : Len(w) = n - 1},
                               x \in AliasStrings}

\* The tables of the first names of the enumeration after Unknown.
AliasTables ==
    { [i \in 1..(AliasNamesNr + 1) |->
         IF i = 1 THEN <<NAME_UNKNOWN, <<"">>>> ELSE <<ModulationNames[i], vecs[i - 1]>>] :
      vecs \in [1..AliasNamesNr -> AliasVectors(MaxAliases)] }

\* The two inner loops of Modulation::verifyAliasNames: each string of
\* strTwoVec from strTwoIt on is compared with the strings of strOneVec; the
\* break at a match leaves the loop over strOneVec only.
RECURSIVE Alias_compare(_, _, _, _)
Alias_compare(strOneVec, strTwoVec, strTwoIt, acc) ==
    IF strTwoIt > Len(strTwoVec) THEN acc
    ELSE LET hits == {strOneIt \in 1..Len(strOneVec) :
                         strTwoVec[strTwoIt] = strOneVec[strOneIt]}
             first == CHOOSE h \in hits : \A g \in hits : h <= g
         IN  Alias_compare(strOneVec, strTwoVec, strTwoIt + 1,
                           IF hits = {} THEN acc
                           ELSE [status |-> FALSE, aDuplicate |-> strOneVec[first]])

\* The loop over mapItTwo: an empty vector ends this loop.
RECURSIVE Alias_two(_, _, _, _)
Alias_two(table, one, two, acc) ==
    IF two > Len(table) THEN acc
    ELSE IF table[two][2] = <<>> THEN [acc EXCEPT !.status = FALSE]
    ELSE Alias_two(table, one, two + 1,
                   Alias_compare(table[one][2], table[two][2], 1, acc))

\* The loop over mapItOne: Unknown is skipped, an empty vector ends the loop.
RECURSIVE Alias_one(_, _, _)
Alias_one(table, one, acc) ==
    IF one > Len(table) THEN acc
    ELSE IF table[one][1] = NAME_UNKNOWN THEN Alias_one(table, one + 1, acc)
    ELSE IF table[one][2] = <<>> THEN [acc EXCEPT !.status = FALSE]
    ELSE Alias_one(table, one + 1, Alias_two(table, one, one + 1, acc))

\* Modulation::verifyAliasNames on a table: its result and aDuplicate.
verifyAliasNames(table) == Alias_one(table, 1, [status |-> TRUE, aDuplicate |-> ""])

\* Modulation::getInstance with no instance yet: the constructor verifies
\* the table and shows a message box when the verification fails; the new
\* object becomes the instance and is returned in either case.
Modulation_getInstance(table) ==
    LET v == verifyAliasNames(table)
    IN  [ op |-> "getInstance", table |-> table, status |-> v.status,
          aDuplicate |-> v.aDuplicate, msgBox |-> ~v.status, sInstance |-> TRUE ]

\* The program before the first use of the registry.
AliasInit ==
    /\ \E table \in AliasTables :
         lastCall = [ op |-> "static", table |-> table, status |-> FALSE,
                      aDuplicate |-> "", msgBox |-> FALSE, sInstance |-> FALSE ]
    /\ dut = TX_DEVICE_AD9361
    /\ trx = [v \in Variants |-> AdiTrx]
    /\ crashed = FALSE
    /\ calls = 0
    /\ disk = {}
    /\ hal = TxHal
    /\ ui = RadioModTx(TxHal, NAME_UNKNOWN, 0)
    /\ parser = [K \in DatasetSources |-> DatasetParser]
    /\ thread = [K \in DatasetSources |-> "idle"]
    /\ queue = <<>>
    /\ ghost = NoGhost

\* The first Modulation::getInstance of the program.
GetInstance ==
    /\ lastCall.op = "static"
    /\ lastCall' = Modulation_getInstance(lastCall.table)
    /\ UNCHANGED <<dut, trx, crashed, calls, presenterVars>>

AliasSpec == AliasInit /\ [][GetInstance]_vars

\* The places of a table where a string of one name is also a string of a
\* later name, as <<one, two, strTwoIt, strOneIt>>.
DuplicatePlaces(table) ==
    { q \in (1..Len(table)) \X (1..Len(table)) \X (1..MaxAliases) \X (1..MaxAliases) :
        /\ q[1] < q[2]
        /\ q[3] <= Len(table[q[2]][2])
        /\ q[4] <= Len(table[q[1]][2])
        /\ table[q[2]][2][q[3]] = table[q[1]][2][q[4]] }

\* Whether the place a comes before the place b in scan order.
ScannedBefore(a, b) ==
    \E n \in 1..4 : a[n] < b[n] /\ \A k \in 1..(n - 1) : a[k] = b[k]

\* The duplicate the scan of a table with duplicates meets first.
FirstDuplicate(table) ==
    LET first == CHOOSE a \in DuplicatePlaces(table) :
                     \A b \in DuplicatePlaces(table) : a = b \/ ScannedBefore(a, b)
    IN  table[first[1]][2][first[4]]

\* C22: when a string is among the aliases of two names of the table, the
\* registry is not handed out and the diagnostic names the first duplicate
\* of the scan; when no string is, the registry is handed out.
AliasUniquenessEnforced ==
    lastCall.op = "getInstance" =>
        IF DuplicatePlaces(lastCall.table) # {}
        THEN /\ ~lastCall.sInstance
             /\ lastCall.msgBox
             /\ lastCall.aDuplicate = FirstDuplicate(lastCall.table)
        ELSE lastCall.sInstance

\* RangeSpec: initialize of a variant over the "*_available" attribute
\* strings the transport can deliver.

\* The steps a delivered range is tried with: negative, none, one unit and
\* the whole width of the range.
RangeSteps(min, max) == {-1, 0, 1, max - min}

\* The token vectors tried for an attribute of a variant: the limits the
\* hardware delivers with each of the steps, and for the gain limit the
\* hardware's value and a positive one.
AttrChoices(dev, name) ==
    LET good == GoodAttr(dev, name)
    IN  IF Len(good) = 3
        THEN {<<good[1], step, good[3]>> : step \in RangeSteps(good[1], good[3])}
        ELSE IF Len(good) = 1 THEN {good, <<-good[1]>>}
        ELSE {good}

RangeEnvs(dev) ==
    { [ missing |-> {}, bad |-> "none", bwAttr |-> bw, fsAttr |-> fs,
        loAttr |-> lo, gainAttr |-> gain ] :
      bw \in AttrChoices(dev, "bw"), fs \in AttrChoices(dev, "fs"),
      lo \in AttrChoices(dev, "lo"), gain \in AttrChoices(dev, "gain") }

\* The first initialize of the variant under test.
RangeInitialize ==
    /\ lastCall.op = "none"
    /\ \E env \in RangeEnvs(dut) :
         LET r == initialize(dut, trx[dut], env)
         IN  /\ trx' = [trx EXCEPT ![dut] = r.t]
             /\ lastCall' = [NoCall EXCEPT !.op = "initialize", !.env = env,
                                           !.nullEnable = r.nullEnable, !.ret = r.ret]
    /\ UNCHANGED <<dut, crashed, calls, presenterVars>>

RangeSpec == TrxInit /\ [][RangeInitialize]_vars

\* min <= max and 0 <= step <= max - min, with no step only in a range of
\* one value.
RangeWellFormed(range) ==
    /\ range.min <= range.max
    /\ 0 <= range.step /\ range.step <= range.max - range.min
    /\ range.step = 0 => range.min = range.max

\* C23: after a successful initialize every range the variant holds (LO
\* frequency, sampling frequency, bandwidth, hardware gain) has min <= max
\* and 0 <= step <= max - min, with step = 0 only when min = max.
CachedRangesWellFormed ==
    (lastCall.op = "initialize" /\ lastCall.ret) =>
        \A param \in {"lo", "fs", "bw", "gain"} : RangeWellFormed(RangeOf(trx[dut], param))

\* C24: whenever the Start button can be pressed, the selected modulation
\* and SNR are a key of the presenter's store.
StartEnabledOnStoredPair ==
    (~crashed /\ isEnabled(ui, "StartFramesButton")) =>
        <<ui.mCrtModulation, ui.mCrtSnrDb>> \in DOMAIN ui.mMap

\* C25: whenever the HAL is not initialized, no variant is active.
UninitializedHasNoVariant ==
    ~hal.mIsInitialized => hal.mTxDevice = TX_DEVICE_UNKNOWN

\* The variants that hold an open transport context.
ContextHolders == {v \in Variants : trx[v].mIioContext}

\* C26: at most one transport context is open across the variants, and when
\* initializeTxDevice begins the initialize of the variant it selected, the
\* variant active before holds no context, channel or buffer, also when its
\* own initialize had failed.
OneOpenContext ==
    /\ Cardinality(ContextHolders) <= 1
    /\ lastCall.op = "initializeTxDevice" => lastCall.atOpen = Resources(AdiTrx)

\* C27: whenever variant A is the active initialised variant and the
\* presenter holds a successfully parsed dataset of kind K, the sampling
\* frequency variant A caches is 2 500 000 * (FRAME_LENGTH[K] / 128).
SamplingRateTracksDataset ==
    ( /\ hal.mIsInitialized /\ hal.mTxDevice = TX_DEVICE_AD9361
      /\ ui.mParserStatus /\ ui.mMap # EmptyMap ) =>
        trx[TX_DEVICE_AD9361].mTxSamplingFrequency =
            2500000 * (SOURCE_FRAME_LENGTH[ui.mDatasetType] \div 128)

\* C28: when the tuple or the text-tabular parser reports success, its map
\* has an entry for every pair of a distinct modulation and a distinct SNR,
\* MODULATIONS_NR * SNRS_NR entries in all, none under the Unknown modulation.
StoreComplete ==
    \A K \in {DATASET_SOURCE_RADIOML_2016_10A, DATASET_SOURCE_HISARMOD_2019_1} :
        (thread[K] = "looping" /\ parser[K].mStatus) =>
            LET p == parser[K]
            IN  /\ \A m \in Range(p.mUniqueModVec) : \A snr \in Range(p.mUniqueSnrVec) :
                     <<m, snr>> \in DOMAIN p.mMap
                /\ Cardinality(DOMAIN p.mMap) = MODULATIONS_NR[K] * SNRS_NR[K]
                /\ \A key \in DOMAIN p.mMap : key[1] # NAME_UNKNOWN

\* C29: the hierarchical parse fails when the caller's single modulation is
\* not an entry of the modulation order, and then publishes no store entry
\* keyed by that modulation.
UnlistedModulationFails ==
    LET p == parser[DATASET_SOURCE_RADIOML_2018_01]
    IN  (lastCall.op = "parse" /\ p.mSingleModulation \notin Range(Hdf5_MODULATION_MAPPING)) =>
            /\ ~p.mStatus
            /\ \A key \in DOMAIN p.mMap : key[1] # p.mSingleModulation

\* C30: every buffer that loadTreeItem has allocated for the dataset X is
\* released exactly once when the parse is over, and once it is released the
\* dataset record does not hold its address any more.
BufferReleasedOnce ==
    LET b == parser[DATASET_SOURCE_RADIOML_2018_01].buffer
    IN  /\ b.frees = b.mallocs
        /\ b.frees > 0 => ~b.mDataBuffer

\* C18: the parse of a tuple-serialized file terminates on every text: a
\* worker that has entered PklParser::parseDataset leaves it and emits the
\* completion notification.
TupleParseTerminates ==
    (thread[DATASET_SOURCE_RADIOML_2016_10A] = "parsing")
        ~> (thread[DATASET_SOURCE_RADIOML_2016_10A] # "parsing")

\* C10: every parse the presenter starts is eventually followed by the
\* handling of its completion notification.
ParseEventuallyHandled == ghost.awaiting ~> ~ghost.awaiting

=============================================================================
